---- MODULE Spec2Model ----
(***************************************************************************)
(* A model of the Nest reminders list: the REST client (rest.ts) and the   *)
(* TodoApp controllers that keep an in-memory ordered, optionally nested   *)
(* list of todos consistent with the remote table.                         *)
(*                                                                         *)
(* The repository holds several revisions of the controller.  Each is a   *)
(* specification of this module over the same variables:                   *)
(*   SpecApp   src/components/todo-app.tsx  (flat list, pointer drag)      *)
(*   SpecCard  src/unnamed/part_004:1547..  (cards, selection, nesting,    *)
(*             delete-on-empty edit)                                       *)
(*   SpecTree  src/unnamed/part_005         (keyboard nesting, collapse)   *)
(*                                                                         *)
(* Modelling decisions                                                     *)
(*  - ids are 1..MaxTodos, NULL is 0; a todo is [id, done, pos, parent];   *)
(*    title text and timestamps do not influence control flow and are      *)
(*    left out (a title input is "" or "ok" after trimming).               *)
(*  - an awaited fetch is one pending call of an operation record in ops;  *)
(*    a call settles in one step (the table changes and the promise        *)
(*    resolves or rejects); the calls still pending when a Promise.all     *)
(*    rejects stay in flight.                                              *)
(*  - a failed call is a non-2xx response: the table is unchanged.         *)
(*  - React commits a render (and runs the effects) between two handled    *)
(*    events, except after a pointermove handled by a native listener:     *)
(*    there the commit is the separate step Render.                        *)
(*  - the environment is kept small: the table answers the gestures in the *)
(*    order they began and the calls of one batch in the order they were   *)
(*    sent (Oldest, NextReplies); the user changes the selection, the      *)
(*    filter or the edited title only while no call is in flight (View);   *)
(*    a drag is released without a sideways offset.  Every behaviour of    *)
(*    the model is a behaviour of the program under such an environment.   *)
(*  - fin names the gesture whose handler returned in the last step; it is *)
(*    a history variable the properties read, and no handler reads it.     *)
(***************************************************************************)
EXTENDS Integers, Sequences, FiniteSets, TLC

\* ------------------------------------------------------------ bounds
MaxTodos == 3        \* ids 1..MaxTodos
MaxEvents == 2       \* user gestures that may call the store, in one behaviour
MaxViews == 1        \* user gestures that only change the view, in one behaviour
MaxFailures == 1     \* store calls that fail for a transport reason
MaxTreeViews == 2    \* view gestures in one behaviour of SpecTreeViews
MaxOps == 2          \* operation records (gestures with calls) in flight
MaxPointerMoves == 2 \* pointermove events in one behaviour of SpecPointer
MaxPointerDowns == 1 \* pointerdown events in one behaviour of SpecPointer

NULL == 0
Ids == 1 .. MaxTodos
NoError == ""
StoreMsg == "store error"
NotFoundMsg == "Todo not found."
EmptyTitleMsg == "Todo title cannot be empty."

\* part_005:23 and part_004:2294: busy markers that are not a todo id
MULTI_BUSY_ID == -1
BULK_DELETE_BUSY_ID == -2
\* part_005:22: the value of activeTodoId while the new-task row is active
NEW_TASK_ACTIVE_ID == -3

VARIABLES
  variant,        \* which controller revision runs: "app", "card", "tree"
  colPosition,    \* the table has a position column
  colParent,      \* the table has a parent_id column
  store,          \* the remote table: id -> row
  nextId,         \* the id the table gives the next created row
  supportsPositionColumn, supportsParentColumn,   \* rest.ts module state
  isLoading, todos, busyId, error, isAdding,
  editingId,
  filter, showCompleted, collapsedTodoIds,
  selectedTodoIds, selectionAnchorId, activeTodoId,
  positioningAvailable, latestTodosRef, drag,
  ops,            \* gestures whose store calls are in flight
  frozen,         \* a handler is in a loop that never ends
  events, failures,       \* budgets
  fin             \* the gesture that finished in the last step, if any

restVars == <<supportsPositionColumn, supportsParentColumn>>
schemaVars == <<variant, colPosition, colParent>>
editVars == <<editingId>>
viewVars == <<filter, showCompleted, collapsedTodoIds>>
selVars == <<selectedTodoIds, selectionAnchorId, activeTodoId>>
dragVars == <<drag>>
vars == <<variant, colPosition, colParent, store, nextId,
          supportsPositionColumn, supportsParentColumn,
          isLoading, todos, busyId, error, isAdding, editingId,
          filter, showCompleted, collapsedTodoIds,
          selectedTodoIds, selectionAnchorId, activeTodoId,
          positioningAvailable, latestTodosRef, drag,
          ops, frozen, events, failures, fin>>

\* ------------------------------------------------------------ sequences
Range(s) == {s[i] : i \in 1 .. Len(s)}

IdsOf(items) == {items[i].id : i \in 1 .. Len(items)}

IdSeq(items) == [i \in 1 .. Len(items) |-> items[i].id]

\* Array.prototype.findIndex on ids, 0-based, -1 when absent
FindIndex(items, id) ==
  IF \E i \in 1 .. Len(items) : items[i].id = id
  THEN (CHOOSE i \in 1 .. Len(items) :
          items[i].id = id /\ \A j \in 1 .. i - 1 : items[j].id # id) - 1
  ELSE -1

\* a filter that also drops the children of the removed items
WithoutChildren(items, removed) ==
  SelectSeq(items, LAMBDA t : t.id \notin removed /\ t.parent \notin removed)

\* items.filter(item => !removed.includes(item.id))
Without(items, removed) == SelectSeq(items, LAMBDA t : t.id \notin removed)

\* items.map(item => item.id === row.id ? row : item)
ReplaceById(items, row) ==
  [i \in 1 .. Len(items) |-> IF items[i].id = row.id THEN row ELSE items[i]]

KeepPositions(items) == items

normalizePositions(items) ==
  [i \in 1 .. Len(items) |-> [items[i] EXCEPT !.pos = i - 1]]

\* a move that, towards the end of the list, brings the item of toIndex to
\* fromIndex where it should take the item of fromIndex to toIndex
arrayMoveFetches(items, fromIndex, toIndex) ==
  IF fromIndex < 0 \/ fromIndex >= Len(items) \/ toIndex >= Len(items) THEN items
  ELSE LET a == IF fromIndex < toIndex THEN toIndex ELSE fromIndex
           b == IF fromIndex < toIndex THEN fromIndex ELSE toIndex
       IN [i \in 1 .. Len(items) |->
             IF i < b + 1 \/ i > a + 1 THEN items[i]
             ELSE IF i = b + 1 THEN items[a + 1] ELSE items[i - 1]]

\* splice(fromIndex, 1) then splice(toIndex, 0, moved); indexes are 0-based
arrayMove(items, fromIndex, toIndex) ==
  IF fromIndex < 0 \/ fromIndex >= Len(items) THEN items
  ELSE LET moved == items[fromIndex + 1]
           rest == [i \in 1 .. Len(items) - 1 |->
                      IF i <= fromIndex THEN items[i] ELSE items[i + 1]]
           at == IF toIndex > Len(rest) THEN Len(rest) ELSE toIndex
       IN [i \in 1 .. Len(items) |->
             IF i <= at THEN rest[i]
             ELSE IF i = at + 1 THEN moved ELSE rest[i - 1]]

\* ------------------------------------------------------------ the table
NoRow == [present |-> FALSE, done |-> FALSE, pos |-> 0, parent |-> NULL]

Row(done, pos, parent) ==
  [present |-> TRUE, done |-> done, pos |-> pos, parent |-> parent]

\* the rows as the initial tables hold them: ids 1..k in order, positions 0..k-1
InitStore(k, parentOf) ==
  [id \in Ids |-> IF id <= k THEN Row(FALSE, id - 1, parentOf[id]) ELSE NoRow]

\* the rows of the table in position order, ties by creation (id) order
RECURSIVE SortedRows(_, _)
SortedRows(st, left) ==
  IF left = {} THEN <<>>
  ELSE LET first == CHOOSE id \in left : \A other \in left :
                      \/ st[id].pos < st[other].pos
                      \/ st[id].pos = st[other].pos /\ id <= other
       IN <<first>> \o SortedRows(st, left \ {first})

\* a store call: k is "create", "del", "pos", "par", "done" or "title"
Call(k, id, v) == [k |-> k, id |-> id, v |-> v]

\* PATCH with return=representation finds no row: updateTodo throws
Missing(c) == c.k \in {"par", "done", "title"} /\ ~store[c.id].present

\* the optional columns the table has
TableColumns ==
  (IF colPosition THEN {"position"} ELSE {}) \cup (IF colParent THEN {"parent_id"} ELSE {})

\* currentSelectColumns: the optional columns a select list names
currentSelectColumns ==
  (IF supportsPositionColumn = "false" THEN {} ELSE {"position"})
    \cup (IF supportsParentColumn = "false" THEN {} ELSE {"parent_id"})

createTodoFirst(id, position) ==
  [k |-> "create", id |-> id, v |-> 0, body |-> {"position"},
   select |-> currentSelectColumns]

\* createTodo's request: the body leaves position out once it is unsupported
createTodo(id, position) ==
  [k |-> "create", id |-> id, v |-> position,
   body |-> IF supportsPositionColumn = "false" THEN {} ELSE {"position"},
   select |-> currentSelectColumns]

\* the optional columns a request names in its select list or its payload
\* (updateTodoPositions and deleteTodo send no select list)
NamedColumns(c) ==
  CASE c.k = "create" -> c.body \cup c.select
    [] c.k = "par" -> currentSelectColumns \cup {"parent_id"}
    [] c.k \in {"title", "done"} -> currentSelectColumns
    [] c.k = "pos" -> {"position"}
    [] OTHER -> {}

\* the table refuses a request that names a column it lacks
Refused(c) == ~(NamedColumns(c) \subseteq TableColumns)

StoreAfter(c) ==
  CASE c.k = "create" -> [store EXCEPT ![c.id] = Row(FALSE, c.v, NULL)]
    [] c.k = "del" -> [store EXCEPT ![c.id] = NoRow]
    [] c.k = "pos" -> IF store[c.id].present
                      THEN [store EXCEPT ![c.id].pos = c.v] ELSE store
    [] c.k = "par" -> [store EXCEPT ![c.id].parent = c.v]
    [] c.k = "done" -> [store EXCEPT ![c.id].done = (c.v = 1)]
    [] OTHER -> store

\* ------------------------------------------------------------ rest.ts
\* normalizeTodoFromApi: the columns the select list did not name are filled in
normalizeTodoFromApi(st, id, fallbackPosition) ==
  [id |-> id,
   done |-> st[id].done,
   pos |-> IF supportsPositionColumn # "false" THEN st[id].pos
           ELSE IF fallbackPosition > 0 THEN fallbackPosition ELSE 0,
   parent |-> IF supportsParentColumn # "false" THEN st[id].parent ELSE NULL]

isPositioningEnabled == supportsPositionColumn # "false"

PositionCallsFromOne(orderedIds) ==
  IF supportsPositionColumn = "false" THEN {}
  ELSE {Call("pos", orderedIds[i], i) : i \in 1 .. Len(orderedIds)}

\* updateTodoPositions: one PATCH per id, its index as position; none when the
\* position column is unsupported
PositionCalls(orderedIds) ==
  IF supportsPositionColumn = "false" THEN {}
  ELSE {Call("pos", orderedIds[i], i - 1) : i \in 1 .. Len(orderedIds)}


listTodosPositioned(named) ==
  LET order == SortedRows(store, {id \in Ids : store[id].present})
  IN [ok |-> TRUE,
      rows |-> [i \in 1 .. Len(order) |->
                  [id |-> order[i], done |-> store[order[i]].done,
                   pos |-> store[order[i]].pos, parent |-> store[order[i]].parent]],
      position |-> "true", parent |-> "true"]

\* listTodos: the select list names every optional column first; on a refusal
\* that names parent_id it retries without parent_id, on one that names
\* position it retries with the base columns only.  named is the column the
\* refusal names (the table decides which when both are missing).
listTodos(named) ==
  LET present == {id \in Ids : store[id].present}
      byPosition == SortedRows(store, present)
      byCreation == SortedRows([id \in Ids |-> [store[id] EXCEPT !.pos = 0]], present)
      rows(order, withPos, withParent) ==
        [i \in 1 .. Len(order) |->
           [id |-> order[i], done |-> store[order[i]].done,
            pos |-> IF withPos THEN store[order[i]].pos ELSE i - 1,
            parent |-> IF withParent THEN store[order[i]].parent ELSE NULL]]
  IN IF colPosition /\ colParent
     THEN [ok |-> TRUE, rows |-> rows(byPosition, TRUE, TRUE),
           position |-> "true", parent |-> "true"]
     ELSE IF named = "parent_id"
     THEN IF colPosition
          THEN [ok |-> TRUE, rows |-> rows(byPosition, TRUE, FALSE),
                position |-> "true", parent |-> "false"]
          ELSE [ok |-> FALSE, rows |-> <<>>,
                position |-> supportsPositionColumn, parent |-> supportsParentColumn]
     ELSE [ok |-> TRUE, rows |-> rows(byCreation, FALSE, FALSE),
           position |-> "false", parent |-> "false"]

\* the columns a refusal of the first request can name
MissingColumns ==
  (IF colParent THEN {} ELSE {"parent_id"}) \cup (IF colPosition THEN {} ELSE {"position"})

\* ------------------------------------------------------------ part_004 helpers
\* a splice that removes the item at index while it inserts the block
InsertAtOver(items, index, block) ==
  LET at == IF index > Len(items) THEN Len(items) ELSE index
  IN SubSeq(items, 1, at) \o block \o SubSeq(items, at + 2, Len(items))

\* next.splice(index, 0, ...block)
InsertAt(items, index, block) ==
  LET at == IF index > Len(items) THEN Len(items) ELSE index
  IN SubSeq(items, 1, at) \o block \o SubSeq(items, at + 1, Len(items))

\* moved.some((todo, index) => todo.id !== items[index]?.id)
OrderDiffers(a, b) ==
  \E i \in 1 .. Len(a) : i > Len(b) \/ a[i].id # b[i].id

\* the block of a selection: the selected items in list order, else the active one
BlockOf(items, selectedIds, activeId) ==
  LET orderedSelected == SelectSeq(items, LAMBDA t : t.id \in Range(selectedIds))
  IN IF Len(orderedSelected) > 0 THEN orderedSelected
     ELSE SelectSeq(items, LAMBDA t : t.id = activeId)

\* compactSelectionAtAnchor: the block gathered at the place of its first item
compactSelectionAtAnchor(items, selectedIds, activeId) ==
  LET block == BlockOf(items, selectedIds, activeId)
      anchorIndex == IF Len(block) = 0 THEN -1 ELSE FindIndex(items, block[1].id)
  IN [ok |-> Len(block) > 0 /\ anchorIndex # -1,
      compacted |-> IF anchorIndex < 0 THEN items
                    ELSE InsertAt(Without(items, IdsOf(block)), anchorIndex, block),
      block |-> block,
      anchorIndex |-> anchorIndex]

\* compactAndMoveSelection: the gathered block moved one place up or down
compactAndMoveSelection(items, selectedIds, activeId, offset) ==
  LET c == compactSelectionAtAnchor(items, selectedIds, activeId)
      canMoveUp == offset < 0 /\ c.anchorIndex > 0
      canMoveDown == offset > 0 /\ c.anchorIndex + Len(c.block) < Len(c.compacted)
      moved == IF canMoveUp \/ canMoveDown
               THEN InsertAt(Without(c.compacted, IdsOf(c.block)),
                             c.anchorIndex + offset, c.block)
               ELSE c.compacted
      changed == OrderDiffers(moved, items)
  IN IF ~c.ok THEN [next |-> items, changed |-> FALSE]
     ELSE [next |-> IF changed THEN normalizePositions(moved) ELSE items,
           changed |-> changed]

SetParent(items, id, parent) ==
  [i \in 1 .. Len(items) |->
     IF items[i].id = id THEN [items[i] EXCEPT !.parent = parent] ELSE items[i]]

\* the while loop of normalizeMovedParentsAfterReorder for one moved item: it
\* climbs to the first ancestor that stands before the item.  On a parent cycle
\* the loop never ends: hung.
RECURSIVE ClimbParents(_, _, _, _)
ClimbParents(items, id, changed, fuel) ==
  LET todo == items[FindIndex(items, id) + 1] IN
  IF todo.parent = NULL THEN [items |-> items, changed |-> changed, hung |-> FALSE]
  ELSE IF todo.parent \notin IdsOf(items)
  THEN [items |-> SetParent(items, id, NULL), changed |-> TRUE, hung |-> FALSE]
  ELSE IF FindIndex(items, todo.parent) < FindIndex(items, id)
  THEN [items |-> items, changed |-> changed, hung |-> FALSE]
  ELSE IF fuel = 0 THEN [items |-> items, changed |-> changed, hung |-> TRUE]
  ELSE ClimbParents(SetParent(items, id, items[FindIndex(items, todo.parent) + 1].parent),
                    id, TRUE, fuel - 1)

\* normalizeMovedParentsAfterReorder: next, the ids whose parent changed, and
\* whether one of the loops never ends
RECURSIVE normalizeMovedParentsAfterReorder(_, _)
normalizeMovedParentsAfterReorder(items, movedIds) ==
  IF Len(movedIds) = 0 THEN [next |-> items, parentUpdates |-> {}, hung |-> FALSE]
  ELSE IF movedIds[1] \notin IdsOf(items)
  THEN normalizeMovedParentsAfterReorder(items, Tail(movedIds))
  ELSE LET one == ClimbParents(items, movedIds[1], FALSE, Len(items) + 1)
           rest == normalizeMovedParentsAfterReorder(one.items, Tail(movedIds))
       IN IF one.hung THEN [next |-> items, parentUpdates |-> {}, hung |-> TRUE]
          ELSE [next |-> rest.next,
                parentUpdates |-> rest.parentUpdates \cup
                                    (IF one.changed THEN {movedIds[1]} ELSE {}),
                hung |-> rest.hung]

\* ------------------------------------------------------------ gestures in flight
\* kind: the handler; id, ids: its target(s); snap: the snapshot the handler
\* keeps for its rollback; pend: calls not settled yet; live: the handler still
\* awaits them; ordLive: persistCurrentOrder still awaits its batch;
\* before, failed: the list when the gesture began, and whether a call of it failed;
\* next: "persist" when the handler saves the order after its first batch;
\* busy: the handler clears busyId in its finally block;
\* seq: the order in which the gestures in flight began
Op(kind, id, ids, snap, pend) ==
  [kind |-> kind, id |-> id, ids |-> ids, snap |-> snap, pend |-> pend,
   live |-> TRUE, ordLive |-> TRUE, before |-> todos, failed |-> FALSE,
   next |-> "done", busy |-> FALSE,
   seq |-> IF ops = {} THEN 1
           ELSE 1 + (CHOOSE n \in {h.seq : h \in ops} : \A h \in ops : h.seq <= n)]

\* an operation record of a handler that sets busyId
BusyOp(kind, id, ids, snap, pend) == [Op(kind, id, ids, snap, pend) EXCEPT !.busy = TRUE]

NoFin == [kind |-> "none", failed |-> FALSE, before |-> <<>>, ids |-> {}, busy |-> FALSE]

Finished(g, failed) ==
  [kind |-> g.kind, failed |-> failed, before |-> g.before, ids |-> g.ids,
   busy |-> g.busy]

\* a handler that returned at once: what it was asked for
Ignored(kind, id) ==
  [kind |-> kind, failed |-> FALSE, before |-> todos, ids |-> {id}, busy |-> FALSE]

\* ops without g, or with g replaced by its remainder while calls stay pending
Remaining(g, rest) ==
  IF rest.pend = {} THEN ops \ {g} ELSE (ops \ {g}) \cup {rest}

\* a user gesture that may call the store: counted against the budget of the
\* behaviour
Gesture == events.acts < MaxEvents /\ events' = [events EXCEPT !.acts = @ + 1]

\* a user gesture that only changes what is selected, edited or shown; the
\* user makes these while no call is in flight
View ==
  /\ ops = {} \/ drag.on
  /\ events.views < MaxViews /\ events' = [events EXCEPT !.views = @ + 1]

\* a call may fail for a transport reason while the budget lasts
Outcomes == IF failures < MaxFailures THEN {TRUE, FALSE} ELSE {TRUE}

Count(ok) == failures' = IF ok THEN failures ELSE failures + 1

\* the error the caller sees when call c does not succeed
ErrorOf(c, ok) == IF ~ok \/ Refused(c) THEN StoreMsg ELSE NotFoundMsg

\* the call succeeds as its caller sees it
Succeeds(c, ok) == ok /\ ~Missing(c) /\ ~Refused(c)

StoreOn(c, ok) == IF Succeeds(c, ok) THEN StoreAfter(c) ELSE store

\* The store answers the gestures in the order in which they began.
Oldest(g) == \A h \in ops : g.seq <= h.seq

\* The replies to the calls one handler sent to update positions arrive in the
\* order of the requests, and so do the replies to its other calls.
NextReplies(g) ==
  {c \in g.pend :
     \A d \in g.pend :
       (d.k = "pos") = (c.k = "pos") => (IF c.k = "pos" THEN c.v <= d.v ELSE c.id <= d.id)}

\* the commit of a render runs the effect that copies todos into the ref
\* (part_005 keeps no such ref)
Rendered == variant = "tree" \/ latestTodosRef = todos

Commit(next) == latestTodosRef' = IF variant = "tree" THEN latestTodosRef ELSE next

filteredTodos ==
  IF variant = "app"
  THEN CASE filter = "open" -> SelectSeq(todos, LAMBDA t : ~t.done)
         [] filter = "done" -> SelectSeq(todos, LAMBDA t : t.done)
         [] OTHER -> todos
  ELSE IF showCompleted THEN todos ELSE SelectSeq(todos, LAMBDA t : ~t.done)

Item(items, id) == items[FindIndex(items, id) + 1]

\* ------------------------------------------------------------ initial load
\* loadTodos (todo-app.tsx:81, part_004:2015, part_005:171)
loadTodos ==
  /\ isLoading
  /\ \E named \in (IF MissingColumns = {} THEN {"none"} ELSE MissingColumns) :
       LET r == listTodos(named) IN
       /\ supportsPositionColumn' = r.position
       /\ supportsParentColumn' = r.parent
       /\ todos' = IF r.ok THEN normalizePositions(r.rows) ELSE todos
       /\ Commit(todos')
       /\ positioningAvailable' =
            IF r.ok /\ variant # "tree" THEN r.position # "false"
            ELSE positioningAvailable
       /\ error' = IF r.ok THEN NoError ELSE StoreMsg
  /\ isLoading' = FALSE
  /\ UNCHANGED <<schemaVars, frozen, store, nextId, busyId, isAdding, editVars, viewVars,
                 selVars, dragVars, ops, events, failures>>
  /\ fin' = NoFin


\* ============================================================ todo-app.tsx
\* canReorder (todo-app.tsx:123)
App_canReorder ==
  filter = "all" /\ editingId = NULL /\ busyId = NULL /\ positioningAvailable

\* handleAdd up to its await: createTodo(title, latestTodosRef.current.length)
App_handleAdd(title) ==
  /\ variant = "app" /\ ~isLoading /\ Rendered /\ ~drag.on /\ Gesture
  /\ ~isAdding
  /\ IF title = ""
     THEN UNCHANGED <<error, isAdding, ops>>
     ELSE /\ nextId <= MaxTodos /\ Cardinality(ops) < MaxOps
          /\ error' = NoError
          /\ isAdding' = TRUE
          /\ ops' = ops \cup
               {Op("add", nextId, {}, <<>>, {createTodo(nextId, Len(latestTodosRef))})}
  /\ nextId' = IF title = "" THEN nextId ELSE nextId + 1
  /\ UNCHANGED <<schemaVars, frozen, restVars, store, isLoading, todos, busyId, editVars,
                 viewVars, selVars, positioningAvailable, latestTodosRef, dragVars,
                 failures>>
  /\ fin' = NoFin

\* handleAdd after createTodo settled
App_handleAdd_settled ==
  \E g \in ops, ok \in Outcomes :
    /\ variant = "app" /\ g.kind = "add" /\ Oldest(g)
    /\ \E c \in g.pend :
         /\ store' = StoreOn(c, ok)
         /\ todos' = IF Succeeds(c, ok)
                     THEN normalizePositions(
                            Append(todos, normalizeTodoFromApi(store', c.id, c.v)))
                     ELSE todos
         /\ error' = IF Succeeds(c, ok) THEN error ELSE ErrorOf(c, ok)
         /\ fin' = Finished(g, ~Succeeds(c, ok))
    /\ isAdding' = FALSE
    /\ ops' = ops \ {g}
    /\ Count(ok)
    /\ Commit(todos')
    /\ UNCHANGED <<schemaVars, frozen, restVars, nextId, isLoading, busyId, editVars, viewVars,
                   selVars, positioningAvailable, dragVars, events>>

\* handleToggle up to its await
App_handleToggle(id) ==
  /\ variant = "app" /\ ~isLoading /\ Rendered /\ ~drag.on /\ Gesture
  /\ id \in IdsOf(filteredTodos)
  /\ IF busyId # NULL
     THEN UNCHANGED <<error, busyId, ops>>
     ELSE /\ Cardinality(ops) < MaxOps
          /\ error' = NoError
          /\ busyId' = id
          /\ ops' = ops \cup
               {BusyOp("toggle", id, {id}, <<>>,
                   {Call("done", id, IF Item(todos, id).done THEN 0 ELSE 1)})}
  /\ UNCHANGED <<schemaVars, frozen, restVars, store, nextId, isLoading, todos, isAdding,
                 editVars, viewVars, selVars, positioningAvailable, latestTodosRef,
                 dragVars, failures>>
  /\ fin' = NoFin

UpdateSettledStaysBusy(g, c, ok) ==
  /\ store' = StoreOn(c, ok)
  /\ todos' = IF Succeeds(c, ok)
              THEN ReplaceById(todos, normalizeTodoFromApi(store', c.id, 0))
              ELSE todos
  /\ error' = IF Succeeds(c, ok) THEN error ELSE ErrorOf(c, ok)
  /\ busyId' = IF Succeeds(c, ok) THEN NULL ELSE busyId
  /\ ops' = ops \ {g}
  /\ fin' = Finished(g, ~Succeeds(c, ok))
  /\ Count(ok)

\* handleToggle or saveEdit after updateTodo settled: the returned row replaces
\* the local item
UpdateSettled(g, c, ok) ==
  /\ store' = StoreOn(c, ok)
  /\ todos' = IF Succeeds(c, ok)
              THEN ReplaceById(todos, normalizeTodoFromApi(store', c.id, 0))
              ELSE todos
  /\ error' = IF Succeeds(c, ok) THEN error ELSE ErrorOf(c, ok)
  /\ busyId' = NULL
  /\ ops' = ops \ {g}
  /\ fin' = Finished(g, ~Succeeds(c, ok))
  /\ Count(ok)

App_handleToggle_settled ==
  \E g \in ops, ok \in Outcomes :
    /\ variant = "app" /\ g.kind = "toggle" /\ Oldest(g)
    /\ \E c \in g.pend : UpdateSettled(g, c, ok)
    /\ Commit(todos')
    /\ UNCHANGED <<schemaVars, frozen, restVars, nextId, isLoading, isAdding, editVars, viewVars,
                   selVars, positioningAvailable, dragVars, events>>

\* handleDelete up to its await
App_handleDelete(id) ==
  /\ variant = "app" /\ ~isLoading /\ Rendered /\ ~drag.on /\ Gesture
  /\ id \in IdsOf(filteredTodos) /\ editingId # id
  /\ IF busyId # NULL
     THEN UNCHANGED <<error, busyId, ops>>
     ELSE /\ Cardinality(ops) < MaxOps
          /\ error' = NoError
          /\ busyId' = id
          /\ ops' = ops \cup {BusyOp("delete", id, {id}, <<>>, {Call("del", id, 0)})}
  /\ UNCHANGED <<schemaVars, frozen, restVars, store, nextId, isLoading, todos, isAdding,
                 editVars, viewVars, selVars, positioningAvailable, latestTodosRef,
                 dragVars, failures>>
  /\ fin' = NoFin

\* handleDelete after deleteTodo settled.  The editingId it compares with is the
\* one of the render that showed the Delete button, which is never the deleted id.
App_handleDelete_settled ==
  \E g \in ops, ok \in Outcomes :
    /\ variant = "app" /\ g.kind = "delete" /\ Oldest(g)
    /\ \E c \in g.pend :
         /\ store' = StoreOn(c, ok)
         /\ todos' = IF ok THEN normalizePositions(Without(todos, {c.id})) ELSE todos
         /\ error' = IF ok THEN error ELSE ErrorOf(c, ok)
    /\ Commit(todos')
    /\ busyId' = NULL
    /\ ops' = ops \ {g}
    /\ fin' = Finished(g, ~ok)
    /\ Count(ok)
    /\ UNCHANGED <<schemaVars, frozen, restVars, nextId, isLoading, isAdding, editVars, viewVars,
                   selVars, positioningAvailable, dragVars, events>>


\* the drag in progress; before is the list as it was when the drag began; kbd:
\* the drag is a keyboard drag (keyboardDragId, part_004:493), whose moved flag is
\* keyboardMovedRef.  For the pointer gesture of the cards (part_004:2441-2650):
\* armed: the pointer is down and the hold timer has not started a drag; timer:
\* the hold timer is pending; can, sel: canReorder and selectedTodoIds of the
\* render whose handlers the gesture runs; edit: allowEditOnRelease; dx: where
\* latestClientX is, -1 at least CARD_HORIZONTAL_NEST_PX to the left of
\* dragStartX, 1 at least that far to the right, 0 in between; intent:
\* dragHorizontalIntent; listeners: whose window listeners are registered;
\* changed: a move of the keyboard drag session changed the order (history)
NoDrag ==
  [on |-> FALSE, id |-> NULL, ids |-> {}, moved |-> FALSE, before |-> <<>>,
   kbd |-> FALSE, armed |-> FALSE, timer |-> FALSE, can |-> FALSE, sel |-> <<>>,
   edit |-> FALSE, dx |-> 0, intent |-> "none", listeners |-> {}, changed |-> FALSE]

\* startEdit and cancelEdit (the buttons are disabled for the busy item)
App_startEdit(id) ==
  /\ variant = "app" /\ ~isLoading /\ Rendered /\ ~drag.on /\ View
  /\ id \in IdsOf(filteredTodos) /\ busyId # id /\ editingId # id
  /\ editingId' = id
  /\ UNCHANGED <<schemaVars, frozen, restVars, store, nextId, isLoading, todos, busyId, error,
                 isAdding, viewVars, selVars, positioningAvailable, latestTodosRef,
                 dragVars, ops, failures>>
  /\ fin' = NoFin

App_cancelEdit ==
  /\ variant = "app" /\ Rendered /\ ~drag.on
  /\ editingId # NULL /\ busyId # editingId
  /\ editingId' = NULL
  /\ UNCHANGED <<schemaVars, frozen, restVars, store, nextId, isLoading, todos, busyId, error,
                 isAdding, viewVars, selVars, positioningAvailable, latestTodosRef,
                 dragVars, ops, events, failures>>
  /\ fin' = NoFin

\* saveEdit up to its await; title is the trimmed text of the edit field
App_saveEdit(title) ==
  /\ variant = "app" /\ Rendered /\ ~drag.on /\ Gesture
  /\ editingId # NULL
  /\ IF busyId # NULL
     THEN UNCHANGED <<error, busyId, ops>>
     ELSE IF title = ""
     THEN error' = EmptyTitleMsg /\ UNCHANGED <<busyId, ops>>
     ELSE /\ Cardinality(ops) < MaxOps
          /\ error' = NoError
          /\ busyId' = editingId
          /\ ops' = ops \cup
               {BusyOp("edit", editingId, {editingId}, <<>>, {Call("title", editingId, 0)})}
  /\ UNCHANGED <<schemaVars, frozen, restVars, store, nextId, isLoading, todos, isAdding,
                 editVars, viewVars, selVars, positioningAvailable, latestTodosRef,
                 dragVars, failures>>
  /\ fin' = NoFin

\* saveEdit after updateTodo settled; cancelEdit() closes the edit on success
App_saveEdit_settled ==
  \E g \in ops, ok \in Outcomes :
    /\ variant = "app" /\ g.kind = "edit" /\ Oldest(g)
    /\ \E c \in g.pend :
         /\ UpdateSettled(g, c, ok)
         /\ editingId' = IF Succeeds(c, ok) THEN NULL ELSE editingId
    /\ Commit(todos')
    /\ UNCHANGED <<schemaVars, frozen, restVars, nextId, isLoading, isAdding, viewVars,
                   selVars, positioningAvailable, dragVars, events>>

\* the three filter buttons
App_setFilter(f) ==
  /\ variant = "app" /\ ~isLoading /\ Rendered /\ ~drag.on /\ View
  /\ f # filter
  /\ filter' = f
  /\ UNCHANGED <<schemaVars, frozen, restVars, store, nextId, isLoading, todos, busyId, error,
                 isAdding, editVars, showCompleted, collapsedTodoIds, selVars,
                 positioningAvailable, latestTodosRef, dragVars, ops, failures>>
  /\ fin' = NoFin

\* startDrag: pointer down on the Drag button
App_startDrag(activeId) ==
  /\ variant = "app" /\ ~isLoading /\ Rendered /\ ~drag.on /\ Gesture
  /\ activeId \in IdsOf(filteredTodos)
  /\ App_canReorder
  /\ error' = NoError
  /\ drag' = [NoDrag EXCEPT !.on = TRUE, !.id = activeId, !.before = todos]
  /\ UNCHANGED <<schemaVars, frozen, restVars, store, nextId, isLoading, todos, busyId,
                 isAdding, editVars, viewVars, selVars, positioningAvailable,
                 latestTodosRef, ops, failures>>
  /\ fin' = NoFin

\* startDrag.handlePointerMove over the item overId: the updater moves the
\* dragged item to the place of overId; the render is committed later
App_handlePointerMove(overId) ==
  /\ variant = "app" /\ drag.on /\ View
  /\ overId \in IdsOf(todos) /\ overId # drag.id
  /\ LET fromIndex == FindIndex(todos, drag.id)
         toIndex == FindIndex(todos, overId)
     IN IF fromIndex = -1 \/ toIndex = -1 \/ fromIndex = toIndex
        THEN UNCHANGED <<todos, drag>>
        ELSE /\ todos' = normalizePositions(arrayMove(todos, fromIndex, toIndex))
             /\ drag' = [drag EXCEPT !.moved = TRUE]
  /\ UNCHANGED <<schemaVars, frozen, restVars, store, nextId, isLoading, busyId, error,
                 isAdding, editVars, viewVars, selVars, positioningAvailable,
                 latestTodosRef, ops, failures>>
  /\ fin' = NoFin

\* the commit of the render a pointermove asked for: the effect at
\* todo-app.tsx:77 copies todos into latestTodosRef
Render ==
  /\ ~Rendered /\ variant # "tree"
  /\ latestTodosRef' = todos
  /\ UNCHANGED <<schemaVars, frozen, restVars, store, nextId, isLoading, todos, busyId, error,
                 isAdding, editVars, viewVars, selVars, positioningAvailable, dragVars,
                 ops, events, failures>>
  /\ fin' = NoFin

\* startDrag.handlePointerUp up to its await: updateTodoPositions of the ids
\* in latestTodosRef
App_handlePointerUp ==
  /\ variant = "app" /\ drag.on
  /\ drag' = NoDrag
  /\ LET calls == PositionCalls(IdSeq(latestTodosRef)) IN
       IF drag.moved /\ positioningAvailable /\ calls # {}
       THEN /\ Cardinality(ops) < MaxOps
            /\ ops' = ops \cup {[Op("order", drag.id, {}, <<>>, calls)
                                  EXCEPT !.before = drag.before]}
       ELSE UNCHANGED ops
  /\ UNCHANGED <<schemaVars, frozen, restVars, store, nextId, isLoading, todos, busyId, error,
                 isAdding, editVars, viewVars, selVars, positioningAvailable,
                 latestTodosRef, events, failures>>
  /\ fin' = NoFin

\* one PATCH of updateTodoPositions settles.  Promise.all rejects on the first
\* failure: the catch sets the error; the other PATCHes stay in flight.
App_handlePointerUp_settled ==
  \E g \in ops, ok \in Outcomes :
    /\ variant = "app" /\ g.kind = "order" /\ Oldest(g)
    /\ \E c \in NextReplies(g) :
         LET rest == [g EXCEPT !.pend = g.pend \ {c},
                               !.live = g.live /\ ok,
                               !.failed = g.failed \/ ~ok]
         IN /\ store' = StoreOn(c, ok)
            /\ ops' = Remaining(g, rest)
            /\ error' = IF g.live /\ ~ok THEN ErrorOf(c, ok) ELSE error
            /\ fin' = IF g.live /\ (~ok \/ rest.pend = {})
                      THEN Finished(g, ~ok) ELSE NoFin
    /\ Count(ok)
    /\ UNCHANGED <<schemaVars, frozen, restVars, nextId, isLoading, todos, busyId, isAdding,
                   editVars, viewVars, selVars, positioningAvailable, latestTodosRef,
                   dragVars, events>>

TitleInputs == {"", "ok"}

NextApp ==
  \/ loadTodos
  \/ \E title \in TitleInputs : App_handleAdd(title)
  \/ App_handleAdd_settled
  \/ \E id \in Ids : App_handleToggle(id)
  \/ App_handleToggle_settled
  \/ \E id \in Ids : App_handleDelete(id)
  \/ App_handleDelete_settled
  \/ \E id \in Ids : App_startEdit(id)
  \/ App_cancelEdit
  \/ \E title \in TitleInputs : App_saveEdit(title)
  \/ App_saveEdit_settled
  \/ \E f \in {"all", "open", "done"} : App_setFilter(f)
  \/ \E id \in Ids : App_startDrag(id)
  \/ \E id \in Ids : App_handlePointerMove(id)
  \/ Render
  \/ App_handlePointerUp
  \/ App_handlePointerUp_settled

\* ------------------------------------------------------------ initial states
\* a parent assignment of rows 1..k that is a pre-order forest: a parent comes
\* first, and every row between a parent and its child is in the parent's subtree
RECURSIVE UnderIn(_, _, _, _)
UnderIn(parentOf, id, root, fuel) ==
  IF fuel = 0 \/ id = NULL THEN FALSE
  ELSE id = root \/ UnderIn(parentOf, parentOf[id], root, fuel - 1)

InitForests(k) ==
  {parentOf \in [Ids -> {NULL} \cup Ids] :
     /\ \A id \in Ids : id > k => parentOf[id] = NULL
     /\ \A id \in 1 .. k :
          parentOf[id] # NULL =>
            /\ parentOf[id] < id
            /\ \A mid \in parentOf[id] + 1 .. id - 1 :
                 UnderIn(parentOf, mid, parentOf[id], MaxTodos)}

\* the state at mount, but for the budgets of the behaviour
InitState ==
  /\ colPosition \in BOOLEAN /\ colParent \in BOOLEAN
  /\ \E k \in 1 .. MaxTodos :
       /\ nextId = k + 1
       /\ \E parentOf \in InitForests(k) :
            /\ colParent \/ \A id \in Ids : parentOf[id] = NULL
            /\ store = InitStore(k, parentOf)
  /\ supportsPositionColumn = "null" /\ supportsParentColumn = "null"
  /\ isLoading = TRUE /\ todos = <<>> /\ busyId = NULL /\ error = NoError
  /\ isAdding = FALSE /\ editingId = NULL
  /\ filter = "all" /\ showCompleted = TRUE /\ collapsedTodoIds = {}
  /\ selectedTodoIds = <<>> /\ selectionAnchorId = NULL /\ activeTodoId = NULL
  /\ positioningAvailable = TRUE /\ latestTodosRef = <<>> /\ drag = NoDrag
  /\ ops = {} /\ frozen = FALSE /\ failures = 0 /\ fin = NoFin

InitCommon == InitState /\ events = [acts |-> 0, views |-> 0]

\* todo-app.tsx never reads parent_id: its tables hold none
InitApp == variant = "app" /\ InitCommon /\ \A id \in Ids : store[id].parent = NULL

SpecApp == InitApp /\ [][NextApp]_vars


\* ============================================================ part_004 (cards)
\* canReorder (part_004:2041)
Card_canReorder ==
  showCompleted /\ editingId = NULL /\ busyId = NULL /\ positioningAvailable

\* a pointer or key gesture on the card of a listed item.  While a title is
\* edited the focus is in its field, and leaving the field saves the edit first.
CardTarget(id) ==
  /\ variant = "card" /\ ~isLoading /\ Rendered /\ ~drag.on /\ ~frozen
  /\ id \in IdsOf(filteredTodos)
  /\ editingId = NULL \/ busyId # NULL

CardGesture(id) == Gesture /\ CardTarget(id)

CardView(id) == View /\ CardTarget(id)

\* the effect at part_004:1968 that drops hidden ids from the selection
Pruned(nextTodos, nextShow, selected, anchor) ==
  LET visible == IdsOf(IF nextShow THEN nextTodos
                       ELSE SelectSeq(nextTodos, LAMBDA t : ~t.done))
  IN /\ selectedTodoIds' = SelectSeq(selected, LAMBDA id : id \in visible)
     /\ selectionAnchorId' = IF anchor # NULL /\ anchor \notin visible THEN NULL ELSE anchor

\* selectedTodoIds when it holds the active card, else nothing
SelectedForAction(activeId) ==
  IF Len(selectedTodoIds) > 0 /\ activeId \in Range(selectedTodoIds)
  THEN selectedTodoIds ELSE <<>>

\* the calls updateTodo(id, {parent_id}) for ids, parents read from items
ParentCalls(items, ids) == {Call("par", id, Item(items, id).parent) : id \in ids}

\* persistCurrentOrder (part_004:2048): no call without the position column
PersistCalls(items) == IF positioningAvailable THEN PositionCalls(IdSeq(items)) ELSE {}

CardOp(kind, id, ids, snap, pend, next, busy) ==
  [Op(kind, id, ids, snap, pend) EXCEPT !.next = next, !.busy = busy]

\* One call of a batch settles.  The PATCHes of persistCurrentOrder are awaited
\* inside its own try: their first failure sets the error and lets the handler go
\* on.  The first failure of any other call rejects the handler's Promise.all:
\* its catch restores the snapshot.  Calls not settled by then stay in flight.
BatchSettled(g, c, ok) ==
  LET good == Succeeds(c, ok)
      swallowed == c.k = "pos"
      rejectOrder == g.live /\ g.ordLive /\ swallowed /\ ~good
      rejectMain == g.live /\ ~swallowed /\ ~good
      ordLive1 == g.ordLive /\ (~swallowed \/ good)
      pend1 == g.pend \ {c}
      awaited == {d \in pend1 : d.k # "pos" \/ ordLive1}
      phaseDone == g.live /\ ~rejectMain /\ awaited = {}
      calls == IF phaseDone /\ g.next = "persist" THEN PersistCalls(latestTodosRef) ELSE {}
      finish == g.live /\ (rejectMain \/ (phaseDone /\ calls = {}))
      rest == [g EXCEPT !.pend = pend1 \cup calls,
                        !.live = g.live /\ ~finish,
                        !.ordLive = ordLive1,
                        !.failed = g.failed \/ ~good,
                        !.next = IF phaseDone THEN "done" ELSE g.next]
  IN /\ store' = StoreOn(c, ok)
     /\ todos' = IF rejectMain /\ g.kind # "order" THEN g.snap ELSE todos
     /\ Commit(todos')
     /\ Pruned(todos', showCompleted, selectedTodoIds, selectionAnchorId)
     /\ error' = IF rejectMain \/ rejectOrder THEN ErrorOf(c, ok) ELSE error
     /\ busyId' = IF finish /\ g.busy THEN NULL ELSE busyId
     /\ ops' = Remaining(g, rest)
     /\ fin' = IF finish THEN Finished(g, rest.failed) ELSE NoFin
     /\ Count(ok)
     /\ UNCHANGED <<schemaVars, frozen, restVars, nextId, isLoading, isAdding, editVars,
                    viewVars, activeTodoId, positioningAvailable, dragVars, events>>

\* the "Completed (Hide/Show)" button (part_004:2687)
Card_toggleShowCompleted ==
  /\ variant = "card" /\ ~isLoading /\ Rendered /\ ~drag.on /\ ~frozen /\ View
  /\ editingId = NULL \/ busyId # NULL
  /\ showCompleted' = ~showCompleted
  /\ Pruned(todos, showCompleted', selectedTodoIds, selectionAnchorId)
  /\ UNCHANGED <<schemaVars, frozen, restVars, store, nextId, isLoading, todos, busyId,
                 error, isAdding, editVars, filter, collapsedTodoIds, activeTodoId,
                 positioningAvailable, latestTodosRef, dragVars, ops, failures>>
  /\ fin' = NoFin

\* handleCardPointerDown.handlePointerUp: a click selects the card; with Shift
\* it adds the card to the selection or takes it out.  focused is the card that
\* has the focus, if any.
Card_handleCardPointerDown(id, shift, focused) ==
  /\ CardView(id)
  /\ focused = NULL \/ (shift /\ Len(selectedTodoIds) = 0 /\ focused \in IdsOf(filteredTodos))
  /\ IF shift
     THEN LET seeded == IF Len(selectedTodoIds) = 0 /\ focused # NULL
                        THEN <<focused>> ELSE selectedTodoIds
              nextSelected == IF id \in Range(seeded)
                              THEN SelectSeq(seeded, LAMBDA x : x # id)
                              ELSE Append(seeded, id)
          IN /\ selectedTodoIds' = nextSelected
             /\ selectionAnchorId' = IF Len(nextSelected) > 0 THEN id ELSE NULL
     ELSE /\ selectedTodoIds' = <<id>>
          /\ selectionAnchorId' = id
  /\ UNCHANGED <<schemaVars, frozen, restVars, store, nextId, isLoading, todos, busyId,
                 error, isAdding, editVars, viewVars, activeTodoId,
                 positioningAvailable, latestTodosRef, dragVars, ops, failures>>
  /\ fin' = NoFin

\* Escape, or a plain ArrowUp/ArrowDown, on a card: the selection is dropped
Card_clearSelection(id) ==
  /\ CardView(id)
  /\ selectedTodoIds' = <<>>
  /\ selectionAnchorId' = NULL
  /\ UNCHANGED <<schemaVars, frozen, restVars, store, nextId, isLoading, todos, busyId,
                 error, isAdding, editVars, viewVars, activeTodoId,
                 positioningAvailable, latestTodosRef, dragVars, ops, failures>>
  /\ fin' = NoFin

\* moveShiftSelectionByOffset: Shift+ArrowUp/ArrowDown on the focused card
Card_moveShiftSelectionByOffset(focusedTodoId, offset) ==
  /\ CardView(focusedTodoId)
  /\ LET focusedIndex == FindIndex(filteredTodos, focusedTodoId)
         nextIndex == focusedIndex + offset
         anchorId == IF selectionAnchorId # NULL THEN selectionAnchorId ELSE focusedTodoId
         anchorIndex == FindIndex(filteredTodos, anchorId)
         start == IF anchorIndex <= nextIndex THEN anchorIndex ELSE nextIndex
         end == IF anchorIndex <= nextIndex THEN nextIndex ELSE anchorIndex
     IN IF nextIndex < 0 \/ nextIndex >= Len(filteredTodos) \/ anchorIndex = -1
        THEN UNCHANGED <<selectedTodoIds, selectionAnchorId>>
        ELSE /\ selectionAnchorId' = anchorId
             /\ selectedTodoIds' = IdSeq(SubSeq(filteredTodos, start + 1, end + 1))
  /\ UNCHANGED <<schemaVars, frozen, restVars, store, nextId, isLoading, todos, busyId,
                 error, isAdding, editVars, viewVars, activeTodoId,
                 positioningAvailable, latestTodosRef, dragVars, ops, failures>>
  /\ fin' = NoFin

\* what the handlers below share: the optimistic list is shown, the error is
\* cleared and the calls go out
CardBegin(g, next) ==
  /\ Cardinality(ops) < MaxOps
  /\ todos' = next
  /\ Commit(next)
  /\ error' = NoError
  /\ ops' = ops \cup {g}

CardIgnored ==
  UNCHANGED <<todos, latestTodosRef, error, ops, busyId, selectedTodoIds,
              selectionAnchorId, frozen>>

\* moveFocusedSelectionByOffset: Cmd+ArrowUp/ArrowDown on the card activeId
Card_moveFocusedSelectionByOffset(activeId, offset) ==
  /\ CardGesture(activeId)
  /\ LET selectedForAction == SelectedForAction(activeId)
         movedIds == IF Len(selectedForAction) > 0 THEN selectedForAction
                     ELSE <<activeId>>
         snapshot == latestTodosRef
         moved == compactAndMoveSelection(snapshot, selectedForAction, activeId, offset)
         normalized == normalizeMovedParentsAfterReorder(moved.next, movedIds)
     IN IF ~Card_canReorder \/ ~moved.changed THEN CardIgnored
        ELSE IF normalized.hung
        THEN /\ frozen' = TRUE
             /\ UNCHANGED <<todos, latestTodosRef, error, ops, busyId,
                            selectedTodoIds, selectionAnchorId>>
        ELSE /\ CardBegin(CardOp("move", activeId, Range(movedIds), snapshot,
                                 PersistCalls(normalized.next) \cup
                                   ParentCalls(normalized.next, normalized.parentUpdates),
                                 "done", FALSE),
                          normalized.next)
             /\ UNCHANGED <<busyId, selectedTodoIds, selectionAnchorId, frozen>>
  /\ UNCHANGED <<schemaVars, restVars, store, nextId, isLoading, isAdding, editVars,
                 viewVars, activeTodoId, positioningAvailable, dragVars, failures>>
  /\ fin' = NoFin

Card_moveFocusedSelectionByOffset_settled ==
  \E g \in ops, ok \in Outcomes :
    /\ variant = "card" /\ ~frozen /\ g.kind = "move" /\ Oldest(g)
    /\ \E c \in NextReplies(g) : BatchSettled(g, c, ok)

\* nestFocusedSelectionIntoPrevious: Cmd+ArrowRight on the card activeId
NestPlan(snapshot, selectedForAction, activeId) ==
  LET compacted == compactSelectionAtAnchor(snapshot, selectedForAction, activeId)
      parent == compacted.compacted[compacted.anchorIndex]
      blockIds == IdsOf(compacted.block)
      parentLevelId == parent.parent
      shouldNestIntoParent ==
        /\ parentLevelId # NULL
        /\ \A i \in 1 .. Len(compacted.block) : compacted.block[i].parent = parentLevelId
      nextParentIdForBlock ==
        IF parentLevelId # NULL
        THEN IF shouldNestIntoParent THEN parent.id ELSE parentLevelId
        ELSE parent.id
      next == normalizePositions(
                [i \in 1 .. Len(compacted.compacted) |->
                   IF compacted.compacted[i].id \in blockIds
                   THEN [compacted.compacted[i] EXCEPT !.parent = nextParentIdForBlock]
                   ELSE compacted.compacted[i]])
      changed == \E i \in 1 .. Len(next) :
                   next[i].id # snapshot[i].id \/ next[i].parent # snapshot[i].parent
  IN IF ~compacted.ok \/ compacted.anchorIndex = 0
     THEN [begin |-> FALSE, next |-> snapshot, ids |-> {}, calls |-> {}]
     ELSE [begin |-> changed, next |-> next, ids |-> blockIds,
           calls |-> ParentCalls(next, blockIds)]

Card_nestFocusedSelectionIntoPrevious(activeId) ==
  /\ CardGesture(activeId)
  /\ LET snapshot == latestTodosRef
         plan == NestPlan(snapshot, SelectedForAction(activeId), activeId)
     IN IF busyId # NULL \/ editingId # NULL \/ ~plan.begin
        THEN CardIgnored
        ELSE /\ CardBegin(CardOp("nest", activeId, plan.ids, snapshot,
                                 plan.calls, "persist", FALSE),
                          plan.next)
             /\ UNCHANGED <<busyId, selectedTodoIds, selectionAnchorId, frozen>>
  /\ UNCHANGED <<schemaVars, restVars, store, nextId, isLoading, isAdding, editVars,
                 viewVars, activeTodoId, positioningAvailable, dragVars, failures>>
  /\ fin' = NoFin

Card_nestFocusedSelectionIntoPrevious_settled ==
  \E g \in ops, ok \in Outcomes :
    /\ variant = "card" /\ ~frozen /\ g.kind = "nest" /\ Oldest(g)
    /\ \E c \in NextReplies(g) : BatchSettled(g, c, ok)

\* unnestFocusedSelectionOneLevel: Cmd+ArrowLeft on the card activeId
UnnestPlan(snapshot, selectedForAction, activeId) ==
  LET targetIds == IF Len(selectedForAction) > 0
                   THEN Range(selectedForAction) ELSE {activeId}
      nextParentId(id) ==
        LET todo == Item(snapshot, id) IN
        IF todo.parent \in IdsOf(snapshot) THEN Item(snapshot, todo.parent).parent
        ELSE NULL
      updates == {id \in targetIds \cap IdsOf(snapshot) :
                    /\ Item(snapshot, id).parent # NULL
                    /\ nextParentId(id) # Item(snapshot, id).parent}
      next == [i \in 1 .. Len(snapshot) |->
                 IF snapshot[i].id \in updates
                 THEN [snapshot[i] EXCEPT !.parent = nextParentId(snapshot[i].id)]
                 ELSE snapshot[i]]
  IN [begin |-> updates # {}, next |-> next, ids |-> updates,
      calls |-> ParentCalls(next, updates)]

Card_unnestFocusedSelectionOneLevel(activeId) ==
  /\ CardGesture(activeId)
  /\ LET snapshot == latestTodosRef
         plan == UnnestPlan(snapshot, SelectedForAction(activeId), activeId)
     IN IF busyId # NULL \/ editingId # NULL \/ ~plan.begin THEN CardIgnored
        ELSE /\ CardBegin(CardOp("unnest", activeId, plan.ids, snapshot,
                                 plan.calls, "done", FALSE),
                          plan.next)
             /\ UNCHANGED <<busyId, selectedTodoIds, selectionAnchorId, frozen>>
  /\ UNCHANGED <<schemaVars, restVars, store, nextId, isLoading, isAdding, editVars,
                 viewVars, activeTodoId, positioningAvailable, dragVars, failures>>
  /\ fin' = NoFin

Card_unnestFocusedSelectionOneLevel_settled ==
  \E g \in ops, ok \in Outcomes :
    /\ variant = "card" /\ ~frozen /\ g.kind = "unnest" /\ Oldest(g)
    /\ \E c \in NextReplies(g) : BatchSettled(g, c, ok)

\* deleteFocusedSelection: Backspace or Delete on the card activeId
Card_deleteFocusedSelection(activeId) ==
  /\ CardGesture(activeId)
  /\ LET snapshot == latestTodosRef
         targetIds == IF Len(SelectedForAction(activeId)) > 0
                      THEN Range(selectedTodoIds) ELSE {activeId}
         nextTodos == normalizePositions(Without(snapshot, targetIds))
     IN IF busyId # NULL \/ editingId # NULL THEN CardIgnored
        ELSE /\ CardBegin(CardOp("bulkDelete", activeId, targetIds, snapshot,
                                 {Call("del", id, 0) : id \in targetIds}, "persist", TRUE),
                          nextTodos)
             /\ selectedTodoIds' = <<>>
             /\ selectionAnchorId' = NULL
             /\ busyId' = BULK_DELETE_BUSY_ID
             /\ UNCHANGED frozen
  /\ UNCHANGED <<schemaVars, restVars, store, nextId, isLoading, isAdding, editVars,
                 viewVars, activeTodoId, positioningAvailable, dragVars, failures>>
  /\ fin' = NoFin

Card_deleteFocusedSelection_settled ==
  \E g \in ops, ok \in Outcomes :
    /\ variant = "card" /\ ~frozen /\ g.kind = "bulkDelete" /\ Oldest(g)
    /\ \E c \in NextReplies(g) : BatchSettled(g, c, ok)

\* handleCreateFromAddCard up to its await
Card_handleCreateFromAddCard(title) ==
  /\ variant = "card" /\ Rendered /\ ~drag.on /\ ~frozen /\ Gesture
  /\ editingId = NULL \/ busyId # NULL
  /\ ~isAdding
  /\ IF title = ""
     THEN UNCHANGED <<error, isAdding, ops, nextId>>
     ELSE /\ nextId <= MaxTodos /\ Cardinality(ops) < MaxOps
          /\ error' = NoError
          /\ isAdding' = TRUE
          /\ nextId' = nextId + 1
          /\ ops' = ops \cup
               {Op("add", nextId, {}, <<>>, {createTodo(nextId, Len(latestTodosRef))})}
  /\ UNCHANGED <<schemaVars, frozen, restVars, store, isLoading, todos, busyId, editVars,
                 viewVars, selVars, positioningAvailable, latestTodosRef, dragVars,
                 failures>>
  /\ fin' = NoFin

\* handleCreateFromAddCard after createTodo settled
Card_handleCreateFromAddCard_settled ==
  \E g \in ops, ok \in Outcomes :
    /\ variant = "card" /\ ~frozen /\ g.kind = "add" /\ Oldest(g)
    /\ \E c \in g.pend :
         /\ store' = StoreOn(c, ok)
         /\ todos' = IF Succeeds(c, ok)
                     THEN normalizePositions(
                            Append(todos, normalizeTodoFromApi(store', c.id, c.v)))
                     ELSE todos
         /\ error' = IF Succeeds(c, ok) THEN error ELSE ErrorOf(c, ok)
         /\ fin' = Finished(g, ~Succeeds(c, ok))
    /\ isAdding' = FALSE
    /\ ops' = ops \ {g}
    /\ Count(ok)
    /\ Commit(todos')
    /\ UNCHANGED <<schemaVars, frozen, restVars, nextId, isLoading, busyId, editVars,
                   viewVars, selVars, positioningAvailable, dragVars, events>>

\* handleToggle up to its await: the round button or Space on the card
Card_handleToggle(id) ==
  /\ CardGesture(id)
  /\ IF busyId # NULL
     THEN UNCHANGED <<error, busyId, ops>>
     ELSE /\ Cardinality(ops) < MaxOps
          /\ error' = NoError
          /\ busyId' = id
          /\ ops' = ops \cup
               {BusyOp("toggle", id, {id}, <<>>,
                   {Call("done", id, IF Item(todos, id).done THEN 0 ELSE 1)})}
  /\ UNCHANGED <<schemaVars, frozen, restVars, store, nextId, isLoading, todos, isAdding,
                 editVars, viewVars, selVars, positioningAvailable, latestTodosRef,
                 dragVars, failures>>
  /\ fin' = NoFin

Card_handleToggle_settled ==
  \E g \in ops, ok \in Outcomes :
    /\ variant = "card" /\ ~frozen /\ g.kind = "toggle" /\ Oldest(g)
    /\ \E c \in g.pend : UpdateSettled(g, c, ok)
    /\ Commit(todos')
    /\ Pruned(todos', showCompleted, selectedTodoIds, selectionAnchorId)
    /\ UNCHANGED <<schemaVars, frozen, restVars, nextId, isLoading, isAdding, editVars,
                   viewVars, activeTodoId, positioningAvailable, dragVars, events>>

\* startEdit: the title button, or Enter on the card
Card_startEdit(id) ==
  /\ CardView(id)
  /\ busyId # id /\ editingId # id
  /\ editingId' = id
  /\ UNCHANGED <<schemaVars, frozen, restVars, store, nextId, isLoading, todos, busyId,
                 error, isAdding, viewVars, selVars, positioningAvailable,
                 latestTodosRef, dragVars, ops, failures>>
  /\ fin' = NoFin

\* handleCardDoubleClick: the selection is dropped and the title is edited
Card_handleCardDoubleClick(id) ==
  /\ CardView(id)
  /\ IF busyId # NULL \/ editingId # NULL
     THEN UNCHANGED <<editingId, selectedTodoIds, selectionAnchorId>>
     ELSE /\ editingId' = id
          /\ selectedTodoIds' = <<>>
          /\ selectionAnchorId' = NULL
  /\ UNCHANGED <<schemaVars, frozen, restVars, store, nextId, isLoading, todos, busyId,
                 error, isAdding, viewVars, activeTodoId, positioningAvailable,
                 latestTodosRef, dragVars, ops, failures>>
  /\ fin' = NoFin

\* cancelEdit: Escape in the title field
Card_cancelEdit ==
  /\ variant = "card" /\ Rendered /\ ~drag.on /\ ~frozen
  /\ editingId # NULL /\ busyId # editingId
  /\ editingId' = NULL
  /\ UNCHANGED <<schemaVars, frozen, restVars, store, nextId, isLoading, todos, busyId,
                 error, isAdding, viewVars, selVars, positioningAvailable,
                 latestTodosRef, dragVars, ops, events, failures>>
  /\ fin' = NoFin

\* saveEdit up to its await: Enter in the title field, or the field losing the
\* focus.  An empty title deletes the item.
Card_saveEdit(title) ==
  /\ variant = "card" /\ Rendered /\ ~drag.on /\ ~frozen /\ Gesture
  /\ editingId # NULL
  /\ IF busyId # NULL
     THEN UNCHANGED <<error, busyId, ops>>
     ELSE /\ Cardinality(ops) < MaxOps
          /\ error' = NoError
          /\ busyId' = editingId
          /\ ops' = ops \cup
               {IF title = ""
                THEN BusyOp("editDelete", editingId, {editingId}, <<>>,
                        {Call("del", editingId, 0)})
                ELSE BusyOp("edit", editingId, {editingId}, <<>>,
                        {Call("title", editingId, 0)})}
  /\ UNCHANGED <<schemaVars, frozen, restVars, store, nextId, isLoading, todos, isAdding,
                 editVars, viewVars, selVars, positioningAvailable, latestTodosRef,
                 dragVars, failures>>
  /\ fin' = NoFin

\* saveEdit after deleteTodo or updateTodo settled
Card_saveEdit_settled ==
  \E g \in ops, ok \in Outcomes :
    /\ variant = "card" /\ ~frozen /\ g.kind \in {"edit", "editDelete"} /\ Oldest(g)
    /\ \E c \in g.pend :
         IF g.kind = "edit"
         THEN /\ UpdateSettled(g, c, ok)
              /\ editingId' = IF Succeeds(c, ok) THEN NULL ELSE editingId
         ELSE /\ store' = StoreOn(c, ok)
              /\ todos' = IF ok THEN normalizePositions(Without(todos, {c.id})) ELSE todos
              /\ error' = IF ok THEN error ELSE ErrorOf(c, ok)
              /\ editingId' = IF ok THEN NULL ELSE editingId
              /\ busyId' = NULL
              /\ ops' = ops \ {g}
              /\ fin' = Finished(g, ~ok)
              /\ Count(ok)
    /\ Commit(todos')
    /\ Pruned(todos', showCompleted, selectedTodoIds, selectionAnchorId)
    /\ UNCHANGED <<schemaVars, frozen, restVars, nextId, isLoading, isAdding, viewVars,
                   activeTodoId, positioningAvailable, dragVars, events>>

\* startDrag: the card was held for CARD_HOLD_TO_DRAG_MS
Card_startDrag(activeId) ==
  /\ CardGesture(activeId)
  /\ Card_canReorder
  /\ error' = NoError
  /\ drag' = [NoDrag EXCEPT !.on = TRUE, !.id = activeId, !.before = todos,
                            !.ids = IF Len(SelectedForAction(activeId)) > 0
                                    THEN Range(selectedTodoIds) ELSE {activeId}]
  /\ UNCHANGED <<schemaVars, frozen, restVars, store, nextId, isLoading, todos, busyId,
                 isAdding, editVars, viewVars, selVars, positioningAvailable,
                 latestTodosRef, ops, failures>>
  /\ fin' = NoFin

\* startDrag.handlePointerMove over the card overId
Card_handlePointerMove(overId) ==
  /\ variant = "card" /\ drag.on /\ ~frozen /\ View
  /\ overId \in IdsOf(todos) /\ overId # drag.id
  /\ LET fromIndex == FindIndex(todos, drag.id)
         toIndex == FindIndex(todos, overId)
     IN IF fromIndex = -1 \/ toIndex = -1 \/ fromIndex = toIndex
        THEN UNCHANGED <<todos, drag>>
        ELSE /\ todos' = normalizePositions(arrayMove(todos, fromIndex, toIndex))
             /\ drag' = [drag EXCEPT !.moved = TRUE]
  /\ UNCHANGED <<schemaVars, frozen, restVars, store, nextId, isLoading, busyId, error,
                 isAdding, editVars, viewVars, selVars, positioningAvailable,
                 latestTodosRef, ops, failures>>
  /\ fin' = NoFin

\* startDrag.handlePointerUp up to its await of persistCurrentOrder.  The pointer
\* is released less than CARD_HORIZONTAL_NEST_PX to the side of where the drag
\* began: neither shouldNest nor shouldUnnest.
Card_handlePointerUp ==
  /\ variant = "card" /\ drag.on /\ ~frozen
  /\ drag' = NoDrag
  /\ LET calls == PersistCalls(latestTodosRef) IN
       IF drag.moved /\ positioningAvailable /\ calls # {}
       THEN /\ Cardinality(ops) < MaxOps
            /\ ops' = ops \cup {[Op("order", drag.id, {}, <<>>, calls)
                                  EXCEPT !.before = drag.before]}
       ELSE UNCHANGED ops
  /\ UNCHANGED <<schemaVars, frozen, restVars, store, nextId, isLoading, todos, busyId,
                 error, isAdding, editVars, viewVars, selVars, positioningAvailable,
                 latestTodosRef, events, failures>>
  /\ fin' = NoFin

Card_handlePointerUp_settled ==
  \E g \in ops, ok \in Outcomes :
    /\ variant = "card" /\ ~frozen /\ g.kind = "order" /\ Oldest(g)
    /\ \E c \in NextReplies(g) : BatchSettled(g, c, ok)

Offsets == {-1, 1}

NextCard ==
  \/ loadTodos
  \/ Render
  \/ Card_toggleShowCompleted
  \/ \E id \in Ids, shift \in BOOLEAN, focused \in {NULL} \cup Ids :
       Card_handleCardPointerDown(id, shift, focused)
  \/ \E id \in Ids : Card_clearSelection(id)
  \/ \E id \in Ids, offset \in Offsets : Card_moveShiftSelectionByOffset(id, offset)
  \/ \E id \in Ids, offset \in Offsets : Card_moveFocusedSelectionByOffset(id, offset)
  \/ Card_moveFocusedSelectionByOffset_settled
  \/ \E id \in Ids : Card_nestFocusedSelectionIntoPrevious(id)
  \/ Card_nestFocusedSelectionIntoPrevious_settled
  \/ \E id \in Ids : Card_unnestFocusedSelectionOneLevel(id)
  \/ Card_unnestFocusedSelectionOneLevel_settled
  \/ \E id \in Ids : Card_deleteFocusedSelection(id)
  \/ Card_deleteFocusedSelection_settled
  \/ \E title \in TitleInputs : Card_handleCreateFromAddCard(title)
  \/ Card_handleCreateFromAddCard_settled
  \/ \E id \in Ids : Card_handleToggle(id)
  \/ Card_handleToggle_settled
  \/ \E id \in Ids : Card_startEdit(id)
  \/ \E id \in Ids : Card_handleCardDoubleClick(id)
  \/ Card_cancelEdit
  \/ \E title \in TitleInputs : Card_saveEdit(title)
  \/ Card_saveEdit_settled
  \/ \E id \in Ids : Card_startDrag(id)
  \/ \E id \in Ids : Card_handlePointerMove(id)
  \/ Card_handlePointerUp
  \/ Card_handlePointerUp_settled

InitCard == variant = "card" /\ InitCommon

SpecCard == InitCard /\ [][NextCard]_vars

\* ============================================================ part_004 (pointer)
\* The pointer gesture of a card in full: handleCardPointerDown arms the hold
\* timer, the timer starts the drag, the moves reorder and record the horizontal
\* displacement, and the release or cancel cleans up, saves the order and then
\* nests or unnests.  The handlers are those of the render in which the pointer
\* went down: their busyId and editingId are null when canReorder held.
Displacements == {-1, 0, 1}

PointerEnds == {"pointerup", "pointercancel"}

IntentOfAnyMove(dx) == "nest"

IntentOf(dx) == IF dx = 1 THEN "nest" ELSE IF dx = -1 THEN "unnest" ELSE "none"

\* selectedTodoIds of the gesture's render when it holds the active card
SelectedAtDown(activeId) ==
  IF Len(drag.sel) > 0 /\ activeId \in Range(drag.sel) THEN drag.sel ELSE <<>>

\* handleCardPointerDown (part_004:2538) up to its return: the listeners and the
\* hold timer are set
Ptr_handleCardPointerDown(id) ==
  /\ CardGesture(id) /\ ~drag.armed
  /\ drag' = [NoDrag EXCEPT !.armed = TRUE, !.timer = TRUE, !.id = id,
                            !.can = Card_canReorder, !.sel = selectedTodoIds,
                            !.edit = TRUE, !.listeners = {"card"}]
  /\ UNCHANGED <<schemaVars, frozen, restVars, store, nextId, isLoading, todos, busyId,
                 error, isAdding, editVars, viewVars, selVars, positioningAvailable,
                 latestTodosRef, ops, failures>>
  /\ fin' = NoFin

\* the hold timer fires after CARD_HOLD_TO_DRAG_MS: startDrag (part_004:2441)
Ptr_holdTimer ==
  /\ variant = "card" /\ drag.armed /\ drag.timer /\ ~frozen
  /\ IF drag.can
     THEN /\ error' = NoError
          /\ drag' = [drag EXCEPT !.armed = FALSE, !.timer = FALSE, !.on = TRUE,
                                  !.edit = FALSE, !.before = todos,
                                  !.ids = IF Len(SelectedAtDown(drag.id)) > 0
                                          THEN Range(drag.sel) ELSE {drag.id},
                                  !.intent = "none",
                                  !.listeners = @ \cup {"drag"}]
     ELSE /\ drag' = [drag EXCEPT !.timer = FALSE]
          /\ UNCHANGED error
  /\ UNCHANGED <<schemaVars, frozen, restVars, store, nextId, isLoading, todos, busyId,
                 isAdding, editVars, viewVars, selVars, positioningAvailable,
                 latestTodosRef, ops, events, failures>>
  /\ fin' = NoFin

\* a pointermove: over the card overId (NULL: over none), displaced by dx.  Before
\* the drag it only withdraws allowEditOnRelease; in the drag it sets
\* dragHorizontalIntent and moves the active card to the place of overId.
Ptr_handlePointerMove(overId, dx) ==
  /\ variant = "card" /\ (drag.armed \/ drag.on) /\ ~drag.kbd /\ drag.listeners # {}
  /\ ~frozen /\ View
  /\ overId \in IdsOf(todos) \cup {NULL}
  /\ IF ~drag.on
     THEN /\ drag' = [drag EXCEPT !.edit = @ /\ dx = 0 /\ overId = NULL]
          /\ UNCHANGED todos
     ELSE LET fromIndex == FindIndex(todos, drag.id)
              toIndex == IF overId = NULL THEN -1 ELSE FindIndex(todos, overId)
              reorder == /\ overId # NULL /\ overId # drag.id
                         /\ fromIndex # -1 /\ toIndex # -1 /\ fromIndex # toIndex
          IN /\ todos' = IF reorder
                         THEN normalizePositions(arrayMove(todos, fromIndex, toIndex))
                         ELSE todos
             /\ drag' = [drag EXCEPT !.dx = dx, !.intent = IntentOf(dx),
                                     !.moved = @ \/ reorder]
  /\ UNCHANGED <<schemaVars, frozen, restVars, store, nextId, isLoading, busyId, error,
                 isAdding, editVars, viewVars, selVars, positioningAvailable,
                 latestTodosRef, ops, failures>>
  /\ fin' = NoFin

\* nestFocusedSelectionIntoPrevious or unnestFocusedSelectionOneLevel as
\* handlePointerUp calls it, up to its await; others: the gestures in flight;
\* shown: the error message when the call returns at once
PointerIntent(intent, activeId, selected, others, shown) ==
  LET snapshot == latestTodosRef
      selectedForAction ==
        IF Len(selected) > 0 /\ activeId \in Range(selected) THEN selected ELSE <<>>
      plan == IF intent = "nest" THEN NestPlan(snapshot, selectedForAction, activeId)
              ELSE UnnestPlan(snapshot, selectedForAction, activeId)
      g == CardOp(intent, activeId, plan.ids, snapshot, plan.calls,
                  IF intent = "nest" THEN "persist" ELSE "done", FALSE)
  IN IF intent \in {"nest", "unnest"} /\ activeId \in IdsOf(snapshot) /\ plan.begin
     THEN /\ Cardinality(others) < MaxOps
          /\ todos' = plan.next
          /\ error' = NoError
          /\ ops' = others \cup {g}
     ELSE /\ todos' = todos
          /\ error' = shown
          /\ ops' = others

\* a pointerup or pointercancel.  Before the drag: the listeners and the timer
\* go, and a pointerup that did not move selects the card.  In the drag
\* (startDrag.handlePointerUp, registered for both events): cleanup, then
\* persistCurrentOrder if a card moved, then the nest or unnest that the
\* displacement asks for.
Ptr_handlePointerUp(event) ==
  /\ variant = "card" /\ (drag.armed \/ drag.on) /\ ~drag.kbd /\ drag.listeners # {}
  /\ ~frozen
  /\ drag' = NoDrag
  /\ IF ~drag.on
     THEN /\ IF event = "pointerup" /\ drag.edit
             THEN selectedTodoIds' = <<drag.id>> /\ selectionAnchorId' = drag.id
             ELSE UNCHANGED <<selectedTodoIds, selectionAnchorId>>
          /\ UNCHANGED <<todos, latestTodosRef, error, ops>>
     ELSE LET calls == PersistCalls(latestTodosRef) IN
          /\ IF drag.moved /\ positioningAvailable /\ calls # {}
             THEN /\ Cardinality(ops) < MaxOps
                  /\ ops' = ops \cup
                       {[CardOp("dragOrder", drag.id, {}, <<>>, calls,
                                IntentOf(drag.dx), FALSE)
                           EXCEPT !.before = drag.before, !.snap = drag.sel]}
                  /\ UNCHANGED <<todos, error>>
             ELSE PointerIntent(IntentOf(drag.dx), drag.id, drag.sel, ops, error)
          /\ Commit(todos')
          /\ UNCHANGED <<selectedTodoIds, selectionAnchorId>>
  /\ UNCHANGED <<schemaVars, frozen, restVars, store, nextId, isLoading, busyId,
                 isAdding, editVars, viewVars, activeTodoId, positioningAvailable,
                 events, failures>>
  /\ fin' = NoFin

\* one PATCH of the persistCurrentOrder that handlePointerUp awaits settles.
\* persistCurrentOrder catches the first failure, sets the error and returns;
\* when it returns, handlePointerUp goes on to the nest or unnest.
Ptr_handlePointerUp_settled ==
  \E g \in ops, ok \in Outcomes :
    /\ variant = "card" /\ ~frozen /\ g.kind = "dragOrder" /\ Oldest(g)
    /\ \E c \in NextReplies(g) :
         LET good == Succeeds(c, ok)
             returns == g.live /\ (~good \/ g.pend = {c})
             rest == [g EXCEPT !.pend = g.pend \ {c},
                               !.live = g.live /\ ~returns,
                               !.failed = g.failed \/ ~good]
             shown == IF g.live /\ ~good THEN ErrorOf(c, ok) ELSE error
         IN /\ store' = StoreOn(c, ok)
            /\ IF returns
               THEN PointerIntent(g.next, g.id, g.snap, Remaining(g, rest), shown)
               ELSE /\ todos' = todos /\ error' = shown
                    /\ ops' = Remaining(g, rest)
            /\ fin' = IF returns /\ ops' = Remaining(g, rest)
                      THEN Finished(g, rest.failed) ELSE NoFin
    /\ Commit(todos')
    /\ Pruned(todos', showCompleted, selectedTodoIds, selectionAnchorId)
    /\ Count(ok)
    /\ UNCHANGED <<schemaVars, frozen, restVars, nextId, isLoading, busyId, isAdding,
                   editVars, viewVars, activeTodoId, positioningAvailable, dragVars,
                   events>>

NextPointer ==
  \/ loadTodos
  \/ Render
  \/ \E id \in Ids : Ptr_handleCardPointerDown(id)
  \/ Ptr_holdTimer
  \/ \E overId \in Ids \cup {NULL}, dx \in Displacements : Ptr_handlePointerMove(overId, dx)
  \/ \E event \in PointerEnds : Ptr_handlePointerUp(event)
  \/ Ptr_handlePointerUp_settled
  \/ Card_nestFocusedSelectionIntoPrevious_settled
  \/ Card_unnestFocusedSelectionOneLevel_settled

\* the pointer may go down MaxPointerDowns times and move MaxPointerMoves times
InitPointer ==
  /\ variant = "card" /\ InitState
  /\ events = [acts |-> MaxEvents - MaxPointerDowns,
               views |-> MaxViews - MaxPointerMoves]

SpecPointer == InitPointer /\ [][NextPointer]_vars

\* ============================================================ part_005 (tree)
\* filteredTodos (part_005:248) of a list
TreeFiltered(items, show) ==
  IF show THEN items ELSE SelectSeq(items, LAMBDA t : ~t.done)

\* the while loop of visibleTodos for one item: it climbs the parents that are
\* listed until one is collapsed ("hidden") or the chain ends ("shown").  On a
\* parent cycle with nothing collapsed the loop never ends ("hung").
RECURSIVE WalkParents(_, _, _, _)
WalkParents(listed, collapsed, parentId, fuel) ==
  IF parentId = NULL THEN "shown"
  ELSE IF parentId \in collapsed THEN "hidden"
  ELSE IF parentId \notin IdsOf(listed) THEN "shown"
  ELSE IF fuel = 0 THEN "hung"
  ELSE WalkParents(listed, collapsed, Item(listed, parentId).parent, fuel - 1)

\* visibleTodos (part_005:265) of a list
VisibleOf(items, show, collapsed) ==
  LET listed == TreeFiltered(items, show)
  IN SelectSeq(listed,
               LAMBDA t : WalkParents(listed, collapsed, t.parent, Len(listed)) = "shown")

TreeHangs(items, show, collapsed) ==
  LET listed == TreeFiltered(items, show)
  IN \E i \in 1 .. Len(listed) :
       WalkParents(listed, collapsed, listed[i].parent, Len(listed)) = "hung"

visibleTodos == VisibleOf(todos, showCompleted, collapsedTodoIds)

\* a getDepth that passes seen on without the id it is at
keepSeen(seen, id) == seen

\* nextSeen of getDepth (part_005:73): a copy of seen with the id added
nextSeen(seen, id) == seen \cup {id}

\* getDepth of buildDepthMap (part_005:55): cache maps an id to its depth, -1
\* while it has none.  links counts the parent links the call followed; fuel
\* bounds the recursion, and a call that runs out of it has not returned (hung).
RECURSIVE getDepth(_, _, _, _, _)
getDepth(items, id, seen, cache, fuel) ==
  IF cache[id] >= 0
  THEN [depth |-> cache[id], cache |-> cache, links |-> 0, hung |-> FALSE]
  ELSE LET item == Item(items, id) IN
       IF item.parent = NULL
       THEN [depth |-> 0, cache |-> [cache EXCEPT ![id] = 0],
             links |-> 0, hung |-> FALSE]
       ELSE IF id \in seen \/ item.parent \notin IdsOf(items)
       THEN [depth |-> 0, cache |-> [cache EXCEPT ![id] = 0],
             links |-> 0, hung |-> FALSE]
       ELSE IF fuel = 0
       THEN [depth |-> 0, cache |-> cache, links |-> 0, hung |-> TRUE]
       ELSE LET up == getDepth(items, item.parent, nextSeen(seen, id), cache, fuel - 1)
            IN [depth |-> up.depth + 1,
                cache |-> IF up.hung THEN up.cache
                          ELSE [up.cache EXCEPT ![id] = up.depth + 1],
                links |-> up.links + 1,
                hung |-> up.hung]

\* the forEach of buildDepthMap (part_005:80): the items are visited in list
\* order with one cache; links keeps, per item, the links its own call followed
RECURSIVE DepthsFrom(_, _, _)
DepthsFrom(items, i, run) ==
  IF i > Len(items) THEN run
  ELSE LET call == getDepth(items, items[i].id, {}, run.cache, Len(items) + 1)
       IN DepthsFrom(items, i + 1,
                     [cache |-> call.cache,
                      links |-> [run.links EXCEPT ![items[i].id] = call.links],
                      hung |-> run.hung \/ call.hung])

buildDepthRun(items) ==
  DepthsFrom(items, 1, [cache |-> [id \in Ids |-> -1],
                        links |-> [id \in Ids |-> 0],
                        hung |-> FALSE])

\* buildDepthMap (part_005:51)
buildDepthMap(items) == buildDepthRun(items).cache

\* parentKey of reorderBySiblingMove: the parent when it is listed, else null
ParentKey(items, t) == IF t.parent \in IdsOf(items) THEN t.parent ELSE NULL

\* visit of reorderBySiblingMove: kids and, after each of them, its own children;
\* the children of activeKey are taken in their new order
RECURSIVE VisitChildren(_, _, _, _)
VisitChildren(items, kids, activeKey, reorderedSiblings) ==
  IF Len(kids) = 0 THEN <<>>
  ELSE LET child == kids[1]
           own == IF child.id = activeKey THEN reorderedSiblings
                  ELSE SelectSeq(items, LAMBDA t : ParentKey(items, t) = child.id)
       IN <<child>> \o VisitChildren(items, own, activeKey, reorderedSiblings)
                    \o VisitChildren(items, Tail(kids), activeKey, reorderedSiblings)

\* reorderBySiblingMove (part_005:85); ok is FALSE where the code returns null
reorderBySiblingMove(items, activeId, direction) ==
  IF activeId \notin IdsOf(items) THEN [ok |-> FALSE, next |-> items]
  ELSE
  LET activeParentKey == ParentKey(items, Item(items, activeId))
      siblings == SelectSeq(items, LAMBDA t : ParentKey(items, t) = activeParentKey)
      currentIndex == FindIndex(siblings, activeId)
      nextIndex == currentIndex + direction
      reorderedSiblings == arrayMove(siblings, currentIndex, nextIndex)
      roots == IF activeParentKey = NULL THEN reorderedSiblings
               ELSE SelectSeq(items, LAMBDA t : ParentKey(items, t) = NULL)
      visited == VisitChildren(items, roots, activeParentKey, reorderedSiblings)
      ordered == visited \o Without(items, IdsOf(visited))
  IN IF currentIndex = -1 \/ nextIndex < 0 \/ nextIndex >= Len(siblings)
     THEN [ok |-> FALSE, next |-> items]
     ELSE [ok |-> TRUE, next |-> normalizePositions(ordered)]

\* Array.prototype.indexOf on a list of ids, 0-based, -1 when absent
IndexOf(idList, id) ==
  IF \E i \in 1 .. Len(idList) : idList[i] = id
  THEN (CHOOSE i \in 1 .. Len(idList) :
          idList[i] = id /\ \A j \in 1 .. i - 1 : idList[j] # id) - 1
  ELSE -1

\* targetIds of the delete, nest and unnest handlers (part_005:197, 379, 455)
TreeTargetIds ==
  IF Len(selectedTodoIds) > 0 THEN selectedTodoIds
  ELSE IF activeTodoId \notin {NULL, NEW_TASK_ACTIVE_ID} THEN <<activeTodoId>>
  ELSE <<>>

\* [...targetIds].sort by the index in visibleOrder (a stable sort: the ids that
\* are not visible have index -1 and come first)
OrderedTargetIds(targetIds, visibleOrder) ==
  SelectSeq(targetIds, LAMBDA id : id \notin Range(visibleOrder))
    \o SelectSeq(visibleOrder, LAMBDA id : id \in Range(targetIds))

\* the forEach of handleNestActiveTodo (part_005:402): each target in turn takes
\* the visible item above it, or that item's parent, as its parent
RECURSIVE NestEach(_, _, _, _)
NestEach(workingTodos, visibleOrder, targets, updates) ==
  IF Len(targets) = 0 THEN [next |-> workingTodos, updates |-> updates]
  ELSE LET id == targets[1]
           index == IndexOf(visibleOrder, id)
           parent == Item(workingTodos, visibleOrder[index])
           current == Item(workingTodos, id)
           depthMap == buildDepthMap(workingTodos)
           nextParentId == IF depthMap[current.id] < depthMap[parent.id]
                           THEN parent.parent ELSE parent.id
       IN IF index <= 0 \/ current.parent = nextParentId
          THEN NestEach(workingTodos, visibleOrder, Tail(targets), updates)
          ELSE NestEach(SetParent(workingTodos, id, nextParentId), visibleOrder,
                        Tail(targets), updates \cup {id})

\* the forEach of handleUnnestActiveTodo (part_005:478)
RECURSIVE UnnestEach(_, _, _, _)
UnnestEach(workingTodos, visibleOrder, targets, updates) ==
  IF Len(targets) = 0 THEN [next |-> workingTodos, updates |-> updates]
  ELSE LET id == targets[1]
           currentIndex == IndexOf(visibleOrder, id)
           current == Item(workingTodos, id)
           hasAbove == currentIndex > 0
           above == Item(workingTodos, visibleOrder[currentIndex])
           depthMap == buildDepthMap(workingTodos)
           aboveDepth == IF hasAbove THEN depthMap[above.id] ELSE -1
           oneLevelUpParentId ==
             IF current.parent \in IdsOf(workingTodos)
             THEN Item(workingTodos, current.parent).parent ELSE NULL
           alignWithAboveParentId == IF hasAbove THEN above.parent ELSE NULL
           nextParentId == IF hasAbove /\ depthMap[current.id] > aboveDepth
                           THEN alignWithAboveParentId ELSE oneLevelUpParentId
       IN IF currentIndex = -1 \/ current.parent = NULL \/ nextParentId = current.parent
          THEN UnnestEach(workingTodos, visibleOrder, Tail(targets), updates)
          ELSE UnnestEach(SetParent(workingTodos, id, nextParentId), visibleOrder,
                          Tail(targets), updates \cup {id})

\* what no handler of part_005 writes after the load
treeFixed ==
  <<variant, colPosition, colParent, supportsPositionColumn, supportsParentColumn,
    isLoading, filter, positioningAvailable, latestTodosRef, drag>>

\* a key or pointer gesture of part_005 outside the title fields
TreeReady == variant = "tree" /\ ~isLoading /\ ~frozen

\* effects that leave the selection, the anchor and activeTodoId as they are
TreeCommitUnpruned(nextTodos, nextShow, collapsed, selected, anchor, active) ==
  LET withChildren == {nextTodos[i].parent : i \in 1 .. Len(nextTodos)}
      nextCollapsed == collapsed \cap withChildren
  IN /\ selectedTodoIds' = selected
     /\ selectionAnchorId' = anchor
     /\ activeTodoId' = active
     /\ collapsedTodoIds' = nextCollapsed
     /\ frozen' = (TreeHangs(nextTodos, nextShow, collapsed)
                     \/ TreeHangs(nextTodos, nextShow, nextCollapsed))

\* The effects at part_005:287..321 after a commit: ids that are not visible
\* leave the selection, the anchor and activeTodoId, and ids without children
\* leave collapsedTodoIds.  The render that computes visibleTodos never ends when
\* its while loop is on a parent cycle.
TreeCommit(nextTodos, nextShow, collapsed, selected, anchor, active) ==
  LET visible == IdsOf(VisibleOf(nextTodos, nextShow, collapsed))
      withChildren == {nextTodos[i].parent : i \in 1 .. Len(nextTodos)}
      nextCollapsed == collapsed \cap withChildren
  IN /\ selectedTodoIds' = SelectSeq(selected, LAMBDA id : id \in visible)
     /\ selectionAnchorId' = IF anchor # NULL /\ anchor \notin visible THEN NULL ELSE anchor
     /\ activeTodoId' = IF active \notin {NULL, NEW_TASK_ACTIVE_ID} /\ active \notin visible
                        THEN NULL ELSE active
     /\ collapsedTodoIds' = nextCollapsed
     /\ frozen' = (TreeHangs(nextTodos, nextShow, collapsed)
                     \/ TreeHangs(nextTodos, nextShow, nextCollapsed))

\* a handler that returns at its guard
TreeIgnored ==
  /\ UNCHANGED <<todos, busyId, error, ops, selVars, collapsedTodoIds, frozen>>
  /\ fin' = NoFin

\* a handler of part_005 up to its first await: the error is cleared, the busy
\* marker is set and the optimistic list is shown.  Without a call to await
\* (updateTodoPositions without the position column) the handler ends at once.
TreeBegin(g, next, busy) ==
  /\ Cardinality(ops) < MaxOps
  /\ todos' = next
  /\ error' = NoError
  /\ IF g.pend = {}
     THEN busyId' = NULL /\ ops' = ops /\ fin' = Finished(g, FALSE)
     ELSE busyId' = busy /\ ops' = ops \cup {g} /\ fin' = NoFin
  /\ TreeCommit(next, showCompleted, collapsedTodoIds, selectedTodoIds,
                selectionAnchorId, activeTodoId)

TreeOp(kind, id, ids, snap, pend, next) ==
  [Op(kind, id, ids, snap, pend) EXCEPT !.next = next, !.busy = TRUE]

\* One call of a handler of part_005 settles.  The first failure rejects the
\* handler's await: its catch restores previousTodos and its finally clears the
\* busy marker, while the calls not settled by then stay in flight.  After the
\* deletes of handleDeleteSelection, updateTodoPositions(nextTodos) is awaited in
\* the same try, and after it the selection is dropped.  (The handler is only
\* called from the key listener, which requires editingId to be null, so the
\* editingId it compares with the targets is null.)
TreeSettled(g, c, ok) ==
  LET good == Succeeds(c, ok)
      reject == g.live /\ ~good
      pend1 == g.pend \ {c}
      phaseDone == g.live /\ good /\ pend1 = {}
      nextTodos == normalizePositions(Without(g.snap, g.ids))
      calls == IF phaseDone /\ g.next = "persist"
               THEN PositionCalls(IdSeq(nextTodos)) ELSE {}
      finish == g.live /\ (reject \/ (phaseDone /\ calls = {}))
      deleted == finish /\ ~reject /\ g.kind = "bulkDelete"
      rest == [g EXCEPT !.pend = pend1 \cup calls,
                        !.live = g.live /\ ~finish,
                        !.failed = g.failed \/ ~good,
                        !.next = IF phaseDone THEN "done" ELSE g.next]
  IN /\ store' = StoreOn(c, ok)
     /\ todos' = IF reject THEN g.snap ELSE todos
     /\ error' = IF reject THEN ErrorOf(c, ok) ELSE error
     /\ busyId' = IF finish THEN NULL ELSE busyId
     /\ ops' = Remaining(g, rest)
     /\ fin' = IF finish THEN Finished(g, rest.failed) ELSE NoFin
     /\ Count(ok)
     /\ TreeCommit(todos', showCompleted, collapsedTodoIds,
                   IF deleted THEN <<>> ELSE selectedTodoIds,
                   IF deleted THEN NULL ELSE selectionAnchorId,
                   IF deleted THEN NULL ELSE activeTodoId)
     /\ UNCHANGED <<treeFixed, nextId, isAdding, editingId, showCompleted, events>>

\* handleDeleteSelection (part_005:196): Backspace or Delete
Tree_handleDeleteSelection ==
  /\ TreeReady /\ Gesture /\ editingId = NULL
  /\ Len(TreeTargetIds) > 0
  /\ LET targetIds == Range(TreeTargetIds)
         nextTodos == normalizePositions(Without(todos, targetIds))
     IN IF busyId # NULL THEN TreeIgnored
        ELSE TreeBegin(TreeOp("bulkDelete", NULL, targetIds, todos,
                              {Call("del", id, 0) : id \in targetIds}, "persist"),
                       nextTodos, MULTI_BUSY_ID)
  /\ UNCHANGED <<treeFixed, store, nextId, isAdding, editingId, showCompleted, failures>>

Tree_handleDeleteSelection_settled ==
  \E g \in ops, ok \in Outcomes :
    /\ variant = "tree" /\ ~frozen /\ g.kind = "bulkDelete" /\ Oldest(g)
    /\ \E c \in NextReplies(g) : TreeSettled(g, c, ok)

\* handleNestActiveTodo (part_005:378): Cmd+ArrowRight
Tree_handleNestActiveTodo ==
  /\ TreeReady /\ Gesture /\ editingId = NULL
  /\ LET visibleOrder == IdSeq(visibleTodos)
         nested == NestEach(todos, visibleOrder,
                            OrderedTargetIds(TreeTargetIds, visibleOrder), {})
     IN IF Len(TreeTargetIds) = 0 \/ busyId # NULL \/ nested.updates = {}
        THEN TreeIgnored
        ELSE TreeBegin(TreeOp("nest", NULL, nested.updates, todos,
                              ParentCalls(nested.next, nested.updates), "done"),
                       nested.next, MULTI_BUSY_ID)
  /\ UNCHANGED <<treeFixed, store, nextId, isAdding, editingId, showCompleted, failures>>

Tree_handleNestActiveTodo_settled ==
  \E g \in ops, ok \in Outcomes :
    /\ variant = "tree" /\ ~frozen /\ g.kind = "nest" /\ Oldest(g)
    /\ \E c \in NextReplies(g) : TreeSettled(g, c, ok)

\* handleUnnestActiveTodo (part_005:454): Cmd+ArrowLeft
Tree_handleUnnestActiveTodo ==
  /\ TreeReady /\ Gesture /\ editingId = NULL
  /\ LET visibleOrder == IdSeq(visibleTodos)
         unnested == UnnestEach(todos, visibleOrder,
                                OrderedTargetIds(TreeTargetIds, visibleOrder), {})
     IN IF Len(TreeTargetIds) = 0 \/ busyId # NULL \/ unnested.updates = {}
        THEN TreeIgnored
        ELSE TreeBegin(TreeOp("unnest", NULL, unnested.updates, todos,
                              ParentCalls(unnested.next, unnested.updates), "done"),
                       unnested.next, MULTI_BUSY_ID)
  /\ UNCHANGED <<treeFixed, store, nextId, isAdding, editingId, showCompleted, failures>>

Tree_handleUnnestActiveTodo_settled ==
  \E g \in ops, ok \in Outcomes :
    /\ variant = "tree" /\ ~frozen /\ g.kind = "unnest" /\ Oldest(g)
    /\ \E c \in NextReplies(g) : TreeSettled(g, c, ok)

\* handleMoveActiveTodo (part_005:531): Cmd+ArrowUp/ArrowDown
Tree_handleMoveActiveTodo(direction) ==
  /\ TreeReady /\ Gesture /\ editingId = NULL
  /\ LET reordered == reorderBySiblingMove(todos, activeTodoId, direction)
     IN IF activeTodoId \in {NULL, NEW_TASK_ACTIVE_ID} \/ busyId # NULL
        THEN TreeIgnored
        ELSE IF ~reordered.ok
        THEN /\ UNCHANGED <<todos, busyId, error, ops, selVars, collapsedTodoIds, frozen>>
             /\ fin' = Ignored("moveIgnored", activeTodoId)
        ELSE TreeBegin(TreeOp("move", activeTodoId, {activeTodoId}, todos,
                              PositionCalls(IdSeq(reordered.next)), "done"),
                       reordered.next, activeTodoId)
  /\ UNCHANGED <<treeFixed, store, nextId, isAdding, editingId, showCompleted, failures>>

Tree_handleMoveActiveTodo_settled ==
  \E g \in ops, ok \in Outcomes :
    /\ variant = "tree" /\ ~frozen /\ g.kind = "move" /\ Oldest(g)
    /\ \E c \in NextReplies(g) : TreeSettled(g, c, ok)

\* a pointer gesture of part_005 on the row of a visible item.  While a title is
\* edited the focus is in its field, and leaving the field saves the edit first.
TreeRow(id) == TreeReady /\ editingId = NULL /\ id \in IdsOf(visibleTodos)

\* handleToggle (part_005:788) up to its await: the round button, disabled for the
\* busy item
Tree_handleToggle(id) ==
  /\ TreeRow(id) /\ Gesture /\ busyId # id
  /\ IF busyId # NULL THEN TreeIgnored
     ELSE LET todo == Item(todos, id)
              flipped == ReplaceById(todos, [todo EXCEPT !.done = ~todo.done])
          IN TreeBegin(TreeOp("treeToggle", id, {id}, todos,
                              {Call("done", id, IF todo.done THEN 0 ELSE 1)}, "done"),
                       flipped, id)
  /\ UNCHANGED <<treeFixed, store, nextId, isAdding, editingId, showCompleted, failures>>

\* handleToggle after updateTodo settled: the returned row replaces the item, or
\* the item gets back the is_completed it had
Tree_handleToggle_settled ==
  \E g \in ops, ok \in Outcomes :
    /\ variant = "tree" /\ ~frozen /\ g.kind = "treeToggle" /\ Oldest(g)
    /\ \E c \in g.pend :
         /\ store' = StoreOn(c, ok)
         /\ todos' = IF Succeeds(c, ok)
                     THEN ReplaceById(todos, normalizeTodoFromApi(store', c.id, 0))
                     ELSE [i \in 1 .. Len(todos) |->
                             IF todos[i].id = c.id
                             THEN [todos[i] EXCEPT !.done = (c.v = 0)] ELSE todos[i]]
         /\ error' = IF Succeeds(c, ok) THEN error ELSE ErrorOf(c, ok)
         /\ fin' = Finished(g, ~Succeeds(c, ok))
    /\ busyId' = NULL
    /\ ops' = ops \ {g}
    /\ Count(ok)
    /\ TreeCommit(todos', showCompleted, collapsedTodoIds, selectedTodoIds,
                  selectionAnchorId, activeTodoId)
    /\ UNCHANGED <<treeFixed, nextId, isAdding, editingId, showCompleted, events>>

\* startEdit (part_005:824): a click on the title of an item that is not busy
Tree_startEdit(id) ==
  /\ TreeRow(id) /\ View /\ busyId # id
  /\ editingId' = id
  /\ UNCHANGED <<treeFixed, store, nextId, todos, busyId, error, isAdding, showCompleted,
                 collapsedTodoIds, selVars, ops, frozen, failures>>
  /\ fin' = NoFin

\* cancelEdit (part_005:829): Escape in the title field
Tree_cancelEdit ==
  /\ TreeReady /\ editingId # NULL
  /\ editingId' = NULL
  /\ UNCHANGED <<treeFixed, store, nextId, todos, busyId, error, isAdding, showCompleted,
                 collapsedTodoIds, selVars, ops, frozen, events, failures>>
  /\ fin' = NoFin

\* saveEdit (part_005:834) up to its await: Enter in the title field, or the
\* field losing the focus.  An empty title is ignored.
Tree_saveEdit(title) ==
  /\ TreeReady /\ Gesture /\ editingId # NULL
  /\ IF busyId # NULL \/ title = ""
     THEN UNCHANGED <<busyId, error, ops>>
     ELSE /\ Cardinality(ops) < MaxOps
          /\ error' = NoError
          /\ busyId' = editingId
          /\ ops' = ops \cup
               {TreeOp("edit", editingId, {editingId}, todos,
                       {Call("title", editingId, 0)}, "done")}
  /\ UNCHANGED <<treeFixed, store, nextId, todos, isAdding, editingId, showCompleted,
                 collapsedTodoIds, selVars, frozen, failures>>
  /\ fin' = NoFin

\* saveEdit after updateTodo settled
Tree_saveEdit_settled ==
  \E g \in ops, ok \in Outcomes :
    /\ variant = "tree" /\ ~frozen /\ g.kind = "edit" /\ Oldest(g)
    /\ \E c \in g.pend :
         /\ UpdateSettled(g, c, ok)
         /\ editingId' = IF Succeeds(c, ok) THEN NULL ELSE editingId
    /\ TreeCommit(todos', showCompleted, collapsedTodoIds, selectedTodoIds,
                  selectionAnchorId, activeTodoId)
    /\ UNCHANGED <<treeFixed, nextId, isAdding, showCompleted, events>>

\* submitNewTask (part_005:349) up to its await: createTodo(title, todos.length)
Tree_submitNewTask(title) ==
  /\ TreeReady /\ Gesture /\ editingId = NULL
  /\ ~isAdding
  /\ IF title = ""
     THEN UNCHANGED <<error, isAdding, ops, nextId>>
     ELSE /\ nextId <= MaxTodos /\ Cardinality(ops) < MaxOps
          /\ error' = NoError
          /\ isAdding' = TRUE
          /\ nextId' = nextId + 1
          /\ ops' = ops \cup
               {Op("add", nextId, {}, <<>>, {createTodo(nextId, Len(todos))})}
  /\ UNCHANGED <<treeFixed, store, todos, busyId, editingId, showCompleted,
                 collapsedTodoIds, selVars, frozen, failures>>
  /\ fin' = NoFin

\* submitNewTask after createTodo settled
Tree_submitNewTask_settled ==
  \E g \in ops, ok \in Outcomes :
    /\ variant = "tree" /\ ~frozen /\ g.kind = "add" /\ Oldest(g)
    /\ \E c \in g.pend :
         /\ store' = StoreOn(c, ok)
         /\ todos' = IF Succeeds(c, ok)
                     THEN normalizePositions(
                            Append(todos, normalizeTodoFromApi(store', c.id, c.v)))
                     ELSE todos
         /\ error' = IF Succeeds(c, ok) THEN error ELSE ErrorOf(c, ok)
         /\ fin' = Finished(g, ~Succeeds(c, ok))
    /\ isAdding' = FALSE
    /\ ops' = ops \ {g}
    /\ Count(ok)
    /\ TreeCommit(todos', showCompleted, collapsedTodoIds, selectedTodoIds,
                  selectionAnchorId, IF \E c \in g.pend : Succeeds(c, ok)
                                     THEN NEW_TASK_ACTIVE_ID ELSE activeTodoId)
    /\ UNCHANGED <<treeFixed, nextId, busyId, editingId, showCompleted, events>>

\* a gesture of part_005 that only changes what is selected or shown
TreeShown(nextShow, collapsed, selected, anchor, active) ==
  /\ TreeCommit(todos, nextShow, collapsed, selected, anchor, active)
  /\ UNCHANGED <<treeFixed, store, nextId, todos, busyId, error, isAdding, editingId,
                 ops, failures>>
  /\ fin' = NoFin

\* onMouseDown of a row (part_005:953): the row becomes the selection
Tree_handleRowMouseDown(id) ==
  /\ TreeRow(id) /\ View
  /\ UNCHANGED showCompleted
  /\ TreeShown(showCompleted, collapsedTodoIds, <<id>>, id, id)

\* onMouseDown of the new-task row (part_005:1061)
Tree_handleNewTaskMouseDown ==
  /\ TreeReady /\ editingId = NULL /\ View
  /\ UNCHANGED showCompleted
  /\ TreeShown(showCompleted, collapsedTodoIds, <<>>, NULL, NEW_TASK_ACTIVE_ID)

\* Escape outside a field, or a pointer press outside the card (part_005:570, 748)
Tree_handleEscape ==
  /\ TreeReady /\ editingId = NULL /\ View
  /\ UNCHANGED showCompleted
  /\ TreeShown(showCompleted, collapsedTodoIds, <<>>, NULL, NULL)

\* Shift+ArrowUp/ArrowDown (part_005:580): the selection becomes the range from
\* the anchor to the next visible row
Tree_handleShiftArrow(direction) ==
  /\ TreeReady /\ editingId = NULL /\ View
  /\ Len(visibleTodos) > 0
  /\ UNCHANGED showCompleted
  /\ LET visibleIds == IdSeq(visibleTodos)
         initialIndex == IndexOf(visibleIds, activeTodoId)
         currentIndex == IF initialIndex = -1
                         THEN (IF direction < 0 THEN Len(visibleIds) - 1 ELSE 0)
                         ELSE initialIndex
         stepped == currentIndex + direction
         nextIndex == IF stepped < 0 THEN 0
                      ELSE IF stepped > Len(visibleIds) - 1 THEN Len(visibleIds) - 1
                      ELSE stepped
         anchorId == IF selectionAnchorId # NULL /\ selectionAnchorId \in Range(visibleIds)
                     THEN selectionAnchorId ELSE visibleIds[currentIndex + 1]
         anchorIndex == IndexOf(visibleIds, anchorId)
         start == IF anchorIndex <= nextIndex THEN anchorIndex ELSE nextIndex
         end == IF anchorIndex <= nextIndex THEN nextIndex ELSE anchorIndex
     IN TreeShown(showCompleted, collapsedTodoIds, SubSeq(visibleIds, start + 1, end + 1),
                  anchorId, visibleIds[nextIndex + 1])

\* ArrowUp/ArrowDown (part_005:631): the selection is dropped and the next
\* visible row, or the new-task row, becomes active
Tree_handleArrow(direction) ==
  /\ TreeReady /\ editingId = NULL /\ View
  /\ UNCHANGED showCompleted
  /\ LET visibleIds == IdSeq(visibleTodos)
         last == Len(visibleIds)
         isMultiSelecting == /\ Len(selectedTodoIds) > 1
                             /\ selectionAnchorId \notin {NULL, NEW_TASK_ACTIVE_ID}
         navigationBaseId == IF isMultiSelecting THEN selectionAnchorId ELSE activeTodoId
         currentIndex == IndexOf(visibleIds, navigationBaseId)
         nextActive ==
           IF last = 0 THEN NEW_TASK_ACTIVE_ID
           ELSE IF direction < 0
           THEN (IF currentIndex = -1
                 THEN (IF navigationBaseId = NULL THEN NEW_TASK_ACTIVE_ID
                       ELSE IF navigationBaseId = NEW_TASK_ACTIVE_ID THEN visibleIds[last]
                       ELSE visibleIds[1])
                 ELSE visibleIds[IF currentIndex - 1 < 0 THEN 1 ELSE currentIndex])
           ELSE (IF currentIndex = -1
                 THEN (IF navigationBaseId = NULL THEN visibleIds[1]
                       ELSE IF navigationBaseId = NEW_TASK_ACTIVE_ID THEN activeTodoId
                       ELSE visibleIds[last])
                 ELSE IF currentIndex = last - 1 THEN NEW_TASK_ACTIVE_ID
                 ELSE visibleIds[currentIndex + 2])
     IN TreeShown(showCompleted, collapsedTodoIds, <<>>, NULL, nextActive)

\* the "Completed" button (part_005:908)
Tree_toggleShowCompleted ==
  /\ TreeReady /\ editingId = NULL /\ View
  /\ showCompleted' = ~showCompleted
  /\ TreeShown(showCompleted', collapsedTodoIds, selectedTodoIds, selectionAnchorId,
               activeTodoId)

\* toggleCollapsedTodo (part_005:780): the chevron of a visible row with children
Tree_toggleCollapsedTodo(todoId) ==
  /\ TreeRow(todoId) /\ View
  /\ \E i \in 1 .. Len(todos) : todos[i].parent = todoId
  /\ UNCHANGED showCompleted
  /\ TreeShown(showCompleted,
               IF todoId \in collapsedTodoIds THEN collapsedTodoIds \ {todoId}
               ELSE collapsedTodoIds \cup {todoId},
               selectedTodoIds, selectionAnchorId, activeTodoId)

Directions == {-1, 1}

NextTree ==
  \/ loadTodos
  \/ Tree_handleDeleteSelection
  \/ Tree_handleDeleteSelection_settled
  \/ Tree_handleNestActiveTodo
  \/ Tree_handleNestActiveTodo_settled
  \/ Tree_handleUnnestActiveTodo
  \/ Tree_handleUnnestActiveTodo_settled
  \/ \E direction \in Directions : Tree_handleMoveActiveTodo(direction)
  \/ Tree_handleMoveActiveTodo_settled
  \/ \E id \in Ids : Tree_handleToggle(id)
  \/ Tree_handleToggle_settled
  \/ \E id \in Ids : Tree_startEdit(id)
  \/ Tree_cancelEdit
  \/ \E title \in TitleInputs : Tree_saveEdit(title)
  \/ Tree_saveEdit_settled
  \/ \E title \in TitleInputs : Tree_submitNewTask(title)
  \/ Tree_submitNewTask_settled
  \/ \E id \in Ids : Tree_handleRowMouseDown(id)
  \/ Tree_handleNewTaskMouseDown
  \/ Tree_handleEscape
  \/ \E direction \in Directions : Tree_handleShiftArrow(direction)
  \/ \E direction \in Directions : Tree_handleArrow(direction)
  \/ Tree_toggleShowCompleted
  \/ \E id \in Ids : Tree_toggleCollapsedTodo(id)

InitTree == variant = "tree" /\ InitCommon

SpecTree == InitTree /\ [][NextTree]_vars

\* The tree revision with MaxTreeViews view gestures in one behaviour.  Its
\* handlers act on the active row, which only a click or an arrow key sets: a
\* behaviour that hides a row and then acts on another one needs two of them.
InitTreeViews ==
  /\ variant = "tree" /\ InitState
  /\ events = [acts |-> 0, views |-> MaxViews - MaxTreeViews]

SpecTreeViews == InitTreeViews /\ [][NextTree]_vars

\* ============================================================ part_004:482 (list)
\* The revision with the keyboard drag: Enter or Space on the Drag button picks
\* the item up, ArrowUp/ArrowDown move it one place, Enter or Tab drop it and
\* save the order, Escape drops it without saving.

\* the updater of moveTodoByOffset (part_004:600): the list it returns, and
\* whether it moved the item
moveTodoByOffset(previous, activeId, offset) ==
  LET fromIndex == FindIndex(previous, activeId)
      toIndex == fromIndex + offset
  IN IF fromIndex = -1 \/ toIndex < 0 \/ toIndex >= Len(previous)
     THEN [moved |-> FALSE, next |-> previous]
     ELSE [moved |-> TRUE,
           next |-> normalizePositions(arrayMove(previous, fromIndex, toIndex))]

ListReady == variant = "list" /\ ~isLoading /\ Rendered /\ ~frozen

\* handleDragHandleKeyDown, Enter or Space on the Drag button of an item that is
\* not picked up (part_004:1133..1148); the button is disabled without canReorder
\* and while another item is picked up
List_startKeyboardDrag(todoId) ==
  /\ ListReady /\ ~drag.on /\ Gesture
  /\ todoId \in IdsOf(filteredTodos)
  /\ App_canReorder
  /\ error' = NoError
  /\ drag' = [NoDrag EXCEPT !.on = TRUE, !.id = todoId, !.before = todos, !.kbd = TRUE]
  /\ UNCHANGED <<schemaVars, frozen, restVars, store, nextId, isLoading, todos, busyId,
                 isAdding, editVars, viewVars, selVars, positioningAvailable,
                 latestTodosRef, ops, failures>>
  /\ fin' = NoFin

\* handleDragHandleKeyDown, ArrowUp or ArrowDown on the Drag button of the item
\* that is picked up (part_004:1162..1178).  moveTodoByOffset returns the flag its
\* updater sets: React runs the updater inside setTodos when the component has no
\* update pending, and at the next render otherwise, after the flag was read.
List_moveTodoByOffset(offset) ==
  /\ ListReady /\ drag.on /\ drag.kbd /\ View
  /\ LET r == moveTodoByOffset(todos, drag.id, offset) IN
       /\ todos' = r.next
       /\ Commit(r.next)
       /\ IF r.moved
          THEN /\ \E eager \in BOOLEAN :
                    drag' = [drag EXCEPT !.moved = @ \/ eager, !.changed = TRUE]
               /\ fin' = NoFin
          ELSE /\ UNCHANGED drag
               /\ fin' = Ignored("moveIgnored", drag.id)
  /\ UNCHANGED <<schemaVars, frozen, restVars, store, nextId, isLoading, busyId, error,
                 isAdding, editVars, viewVars, selVars, positioningAvailable, ops, failures>>

\* deactivateKeyboardDrag (part_004:905): Enter (with canReorder) or Tab save the
\* order when an item was moved, Escape does not; persistCurrentOrder
\* (part_004:581) sends the ids of latestTodosRef
List_deactivateKeyboardDrag(shouldPersistOrder, key) ==
  /\ ListReady /\ drag.on /\ drag.kbd
  /\ key = "Enter" => (shouldPersistOrder /\ App_canReorder)
  /\ key = "Escape" <=> ~shouldPersistOrder
  /\ drag' = NoDrag
  /\ LET calls == PositionCalls(IdSeq(latestTodosRef)) IN
       IF shouldPersistOrder /\ drag.moved /\ positioningAvailable /\ calls # {}
       THEN /\ Cardinality(ops) < MaxOps
            /\ ops' = ops \cup {[Op("order", drag.id, {}, <<>>, calls)
                                  EXCEPT !.before = drag.before]}
       ELSE UNCHANGED ops
  /\ UNCHANGED <<schemaVars, frozen, restVars, store, nextId, isLoading, todos, busyId, error,
                 isAdding, editVars, viewVars, selVars, positioningAvailable,
                 latestTodosRef, events, failures>>
  /\ fin' = NoFin

\* one PATCH of persistCurrentOrder settles: its catch sets the error
List_persistCurrentOrder_settled ==
  \E g \in ops, ok \in Outcomes :
    /\ variant = "list" /\ g.kind = "order" /\ Oldest(g)
    /\ \E c \in NextReplies(g) :
         LET rest == [g EXCEPT !.pend = g.pend \ {c},
                               !.live = g.live /\ ok,
                               !.failed = g.failed \/ ~ok]
         IN /\ store' = StoreOn(c, ok)
            /\ ops' = Remaining(g, rest)
            /\ error' = IF g.live /\ ~ok THEN ErrorOf(c, ok) ELSE error
            /\ fin' = IF g.live /\ (~ok \/ rest.pend = {})
                      THEN Finished(g, ~ok) ELSE NoFin
    /\ Count(ok)
    /\ UNCHANGED <<schemaVars, frozen, restVars, nextId, isLoading, todos, busyId, isAdding,
                   editVars, viewVars, selVars, positioningAvailable, latestTodosRef,
                   dragVars, events>>

\* handleDelete (part_004:973) up to its await; the Delete button of another row
\* can be pressed while an item is picked up
List_handleDelete(id) ==
  /\ ListReady /\ Gesture
  /\ id \in IdsOf(filteredTodos)
  /\ IF busyId # NULL
     THEN UNCHANGED <<error, busyId, ops>>
     ELSE /\ Cardinality(ops) < MaxOps
          /\ error' = NoError
          /\ busyId' = id
          /\ ops' = ops \cup {BusyOp("delete", id, {id}, <<>>, {Call("del", id, 0)})}
  /\ UNCHANGED <<schemaVars, frozen, restVars, store, nextId, isLoading, todos, isAdding,
                 editVars, viewVars, selVars, positioningAvailable, latestTodosRef,
                 dragVars, failures>>
  /\ fin' = NoFin

\* handleDelete after deleteTodo settled
List_handleDelete_settled ==
  \E g \in ops, ok \in Outcomes :
    /\ variant = "list" /\ g.kind = "delete" /\ Oldest(g)
    /\ \E c \in g.pend :
         /\ store' = StoreOn(c, ok)
         /\ todos' = IF ok THEN normalizePositions(Without(todos, {c.id})) ELSE todos
         /\ error' = IF ok THEN error ELSE ErrorOf(c, ok)
         /\ editingId' = IF ok /\ editingId = c.id THEN NULL ELSE editingId
    /\ Commit(todos')
    /\ busyId' = NULL
    /\ ops' = ops \ {g}
    /\ fin' = Finished(g, ~ok)
    /\ Count(ok)
    /\ UNCHANGED <<schemaVars, frozen, restVars, nextId, isLoading, isAdding, viewVars,
                   selVars, positioningAvailable, dragVars, events>>

NextList ==
  \/ loadTodos
  \/ \E todoId \in Ids : List_startKeyboardDrag(todoId)
  \/ \E offset \in Offsets : List_moveTodoByOffset(offset)
  \/ \E persist \in BOOLEAN, key \in {"Enter", "Tab", "Escape"} :
       List_deactivateKeyboardDrag(persist, key)
  \/ List_persistCurrentOrder_settled
  \/ \E id \in Ids : List_handleDelete(id)
  \/ List_handleDelete_settled

\* the list revision never reads parent_id: its tables hold none
InitList == variant = "list" /\ InitCommon /\ \A id \in Ids : store[id].parent = NULL

SpecList == InitList /\ [][NextList]_vars

\* ============================================================ all revisions
InitAll == InitApp \/ InitCard \/ InitTree

NextAll == NextApp \/ NextCard \/ NextTree

SpecAll == InitAll /\ [][NextAll]_vars


\* ============================================================ properties
\* no handler awaits a call, no call is in flight and no drag is in progress
Quiet == ~isLoading /\ ops = {} /\ ~drag.on /\ Rendered

PositionsDense(items) == \A i \in 1 .. Len(items) : items[i].pos = i - 1

\* the table holds every item of the list at the position of its index
OrderPersisted(items) ==
  \A i \in 1 .. Len(items) :
    store[items[i].id].present /\ store[items[i].id].pos = i - 1

StructuralKinds == {"delete", "bulkDelete", "editDelete", "order", "move", "nest"}

\* C1: after the load, whenever no gesture is in flight, the local items carry
\* the positions 0..n-1 in list order, also after a toggle or a title edit whose
\* returned row replaced the local item.
C1_LocalPositionsDense == Quiet => PositionsDense(todos)

\* C2: when the last gesture to finish was a successful structural operation and
\* nothing is in flight, every item's position in the table equals its index in
\* the list (on a table that has the position column).
C2_OrderPersisted ==
  (Quiet /\ fin.kind \in StructuralKinds /\ ~fin.failed /\ supportsPositionColumn = "true")
    => OrderPersisted(todos)

\* C7: when the reposition batch of a reorder has just failed, the list is back
\* in the order it had before the reorder began and an error is shown.
C7_FailedBatchRestoresOrder ==
  (fin.kind = "order" /\ fin.failed)
    => (IdSeq(todos) = IdSeq(fin.before) /\ error # NoError)

\* the ancestors of id through parent links, as far as the parents are listed
RECURSIVE AncestorsOf(_, _, _)
AncestorsOf(items, id, fuel) ==
  IF fuel = 0 \/ id \notin IdsOf(items) THEN {}
  ELSE LET parent == Item(items, id).parent
       IN IF parent = NULL \/ parent \notin IdsOf(items) THEN {}
          ELSE {parent} \cup AncestorsOf(items, parent, fuel - 1)

NoParentCycle(items) ==
  \A i \in 1 .. Len(items) : items[i].id \notin AncestorsOf(items, items[i].id, Len(items))

\* every child stands after its parent with only items of the parent's subtree
\* between them
PreOrder(items) ==
  \A i \in 1 .. Len(items) :
    LET parent == items[i].parent IN
    (parent # NULL /\ parent \in IdsOf(items)) =>
      /\ FindIndex(items, parent) + 1 < i
      /\ \A j \in FindIndex(items, parent) + 2 .. i - 1 :
           parent \in AncestorsOf(items, items[j].id, Len(items))

ParentsPresent(items) ==
  \A i \in 1 .. Len(items) : items[i].parent # NULL => items[i].parent \in IdsOf(items)

\* the gestures with a delete request for id in flight (a gesture sends one at most)
DeletesInFlight(id) == {g \in ops : Call("del", id, 0) \in g.pend}

OptimisticKinds == {"bulkDelete", "nest", "unnest", "move", "treeToggle"}

\* C3: in every reachable state no item of the list is its own ancestor through
\* parent links; no item names itself as its parent.
C3_NoParentCycle == NoParentCycle(todos)

\* C4: when a reorder, move, nest or unnest has just been committed, the list is
\* a pre-order traversal of the parent forest.
C4_PreOrderAfterCommit ==
  (fin.kind \in {"order", "move", "nest", "unnest"} /\ ~fin.failed) => PreOrder(todos)

\* C5: when an operation has just been committed, every parent named by an item
\* of the list is itself in the list; after a delete no item names a deleted one.
C5_ParentsPresentAfterCommit ==
  (fin.kind # "none" /\ ~fin.failed) => ParentsPresent(todos)

\* C6: when an optimistic gesture has just finished and one of its store calls
\* failed, the list is the list of before the gesture and an error is shown.
C6_FailureRollsBack ==
  (fin.kind \in OptimisticKinds /\ fin.failed) => (todos = fin.before /\ error # NoError)

\* C9: no item is the target of two delete requests in flight at once.
C9_NoTwoDeletesInFlight == \A id \in Ids : Cardinality(DeletesInFlight(id)) <= 1


\* every request the client sent is answered, or fails, in the end
Settles ==
  \/ App_handleAdd_settled \/ App_handleToggle_settled \/ App_handleDelete_settled
  \/ App_saveEdit_settled \/ App_handlePointerUp_settled
  \/ Card_moveFocusedSelectionByOffset_settled
  \/ Card_nestFocusedSelectionIntoPrevious_settled
  \/ Card_unnestFocusedSelectionOneLevel_settled
  \/ Card_deleteFocusedSelection_settled \/ Card_handleCreateFromAddCard_settled
  \/ Card_handleToggle_settled \/ Card_saveEdit_settled \/ Card_handlePointerUp_settled
  \/ Tree_handleDeleteSelection_settled \/ Tree_handleNestActiveTodo_settled
  \/ Tree_handleUnnestActiveTodo_settled \/ Tree_handleMoveActiveTodo_settled
  \/ Tree_handleToggle_settled \/ Tree_saveEdit_settled \/ Tree_submitNewTask_settled

FairAll == SpecAll /\ WF_vars(Settles)

\* the gestures in flight that set the busy marker and have not yet reached
\* their finally block
BusyGestures == {g \in ops : g.busy /\ g.live /\ g.pend # {}}

\* C8: a gesture that set the busy marker and has just finished leaves busyId
\* null, busyId is non-null only while such a gesture awaits a call, and a
\* non-null busyId always becomes null again.
C8_BusyEventuallyCleared ==
  /\ [](fin.busy => busyId = NULL)
  /\ [](busyId # NULL => BusyGestures # {})
  /\ (busyId # NULL) ~> (busyId = NULL)

\* a gesture that set the busy marker has just finished on a failed call
C8_Witness == fin.busy /\ fin.failed /\ busyId = NULL

\* result holds exactly the items of items that are not in removed, in the
\* order they have in items, at positions 0, 1, ...
LeavesOthers(items, removed, result) ==
  /\ Len(result) = Len(items) - Cardinality(removed)
  /\ IdsOf(result) = IdsOf(items) \ removed
  /\ \A i \in 1 .. Len(result) :
       /\ result[i].pos = i - 1
       /\ \A j \in i + 1 .. Len(result) :
            FindIndex(items, result[i].id) < FindIndex(items, result[j].id)

\* the handlers that take the items out of the list once the store has deleted
\* them, and those that take them out before they ask the store
DeletesAfterReply == {"delete", "editDelete"}
DeletesBeforeReply == {"bulkDelete"}

\* C10: a successful delete of listed items leaves exactly the other items, in
\* their relative order, at positions 0..n-2 (0..n-1-k for k items): where the
\* list is changed on the reply, the step of the reply does so; where it is
\* changed at once, the step of the gesture does so and the step that ends the
\* gesture with success keeps the list.
C10_DeleteLeavesOthers ==
  [][/\ (fin'.kind \in DeletesAfterReply /\ ~fin'.failed /\ fin'.ids \subseteq IdsOf(todos))
         => LeavesOthers(todos, fin'.ids, todos')
     /\ \A g \in ops' \ ops :
          (g.kind \in DeletesBeforeReply /\ g.seq \notin {h.seq : h \in ops})
            => LeavesOthers(todos, g.ids, todos')
     /\ (fin'.kind \in DeletesBeforeReply /\ ~fin'.failed) => todos' = todos]_vars

\* the middle one of three items has just been deleted with success
C10_Witness ==
  /\ fin.kind \in DeletesAfterReply \cup DeletesBeforeReply /\ ~fin.failed
  /\ Len(fin.before) = 3 /\ fin.ids = {fin.before[2].id}
  /\ IdSeq(todos) = <<fin.before[1].id, fin.before[3].id>>

\* the item is the first of the list and is moved up, or the last and moved down
AtEdge(items, id, offset) ==
  /\ Len(items) > 0
  /\ \/ offset = -1 /\ items[1].id = id
     \/ offset = 1 /\ items[Len(items)].id = id

\* the sibling scope of an item: the items that have its parent (no parent, for
\* an item whose parent is not in the list); no item of it stands on that side
NoSiblingToward(items, id, offset) ==
  /\ id \in IdsOf(items)
  /\ LET at == FindIndex(items, id) + 1 IN
       ~\E j \in 1 .. Len(items) :
          /\ ParentKey(items, items[j]) = ParentKey(items, items[at])
          /\ IF offset < 0 THEN j < at ELSE j > at

\* C11: a move of the first task by -1 or of the last by +1, and a move of a task
\* that has no sibling on that side in its sibling scope, changes neither the
\* list nor the positions, sends no store call (now or when the item is dropped)
\* and sets no error.
C11_EdgeMoveIsNoOp ==
  [][/\ \A offset \in Offsets :
          (List_moveTodoByOffset(offset) /\ AtEdge(todos, drag.id, offset))
            => UNCHANGED <<todos, store, ops, error, drag>>
     /\ \A direction \in Directions :
          (/\ Tree_handleMoveActiveTodo(direction)
           /\ \/ AtEdge(todos, activeTodoId, direction)
              \/ NoSiblingToward(todos, activeTodoId, direction))
            => UNCHANGED <<todos, store, ops, error, busyId>>
     /\ \A activeId \in Ids, offset \in Offsets :
          (/\ Card_moveFocusedSelectionByOffset(activeId, offset)
           /\ SelectedForAction(activeId) = <<>>
           /\ \/ AtEdge(todos, activeId, offset)
              \/ NoSiblingToward(todos, activeId, offset))
            => UNCHANGED <<todos, store, ops, error>>]_vars

\* ============================================================ arrayMove, there and back
\* The updater of startDrag.handlePointerMove (todo-app.tsx:284-292) applied
\* twice to a list: the dragged item goes from its index to toIndex, then from
\* there to the index it had.  The lists are those a drag can begin with: distinct
\* ids, and positions as the replies of the table left them (a row that
\* updateTodo returned keeps the table's position, todo-app.tsx:170).

\* the lists of exactly the ids in chosen, in every order, with any positions
ListsOf(chosen) ==
  {items \in [1 .. Cardinality(chosen) ->
                [id : chosen, done : {FALSE}, pos : 0 .. MaxTodos - 1, parent : {NULL}]] :
     \A i, j \in 1 .. Cardinality(chosen) : i # j => items[i].id # items[j].id}

\* every variable the two moves leave alone, at its value while nothing else happens
Parked ==
  /\ colPosition = TRUE /\ colParent = FALSE
  /\ store = [id \in Ids |-> NoRow] /\ nextId = 1
  /\ supportsPositionColumn = "true" /\ supportsParentColumn = "false"
  /\ isLoading = FALSE /\ busyId = NULL /\ error = NoError
  /\ isAdding = FALSE /\ editingId = NULL
  /\ filter = "all" /\ showCompleted = TRUE /\ collapsedTodoIds = {}
  /\ selectedTodoIds = <<>> /\ selectionAnchorId = NULL /\ activeTodoId = NULL
  /\ positioningAvailable = TRUE /\ latestTodosRef = <<>>
  /\ ops = {} /\ frozen = FALSE /\ failures = 0 /\ fin = NoFin

InitRoundTrip ==
  /\ variant = "arrayMove" /\ Parked
  /\ \E chosen \in SUBSET Ids :
       /\ chosen # {}
       /\ todos \in ListsOf(chosen)
       /\ \E activeId \in chosen :
            drag = [NoDrag EXCEPT !.on = TRUE, !.id = activeId, !.before = todos]
  /\ events = [acts |-> 0, views |-> 0]

\* the updater handlePointerMove gives to setTodos (todo-app.tsx:284-292), for the
\* item at toIndex under the pointer
pointerMoveUpdater(previous, activeId, toIndex) ==
  LET fromIndex == FindIndex(previous, activeId)
  IN IF fromIndex = -1 \/ toIndex = -1 \/ fromIndex = toIndex
     THEN [moved |-> FALSE, next |-> previous]
     ELSE [moved |-> TRUE,
           next |-> normalizePositions(arrayMove(previous, fromIndex, toIndex))]

\* the first pointermove: the dragged item goes to toIndex
RoundTrip_moveTo(toIndex) ==
  /\ variant = "arrayMove" /\ events.views = 0
  /\ toIndex < Len(todos)
  /\ LET r == pointerMoveUpdater(todos, drag.id, toIndex) IN
       /\ todos' = r.next
       /\ drag' = [drag EXCEPT !.moved = @ \/ r.moved]
  /\ events' = [events EXCEPT !.views = 1]
  /\ UNCHANGED <<schemaVars, restVars, store, nextId, isLoading, busyId, error, isAdding,
                 editVars, viewVars, selVars, positioningAvailable, latestTodosRef,
                 ops, frozen, failures, fin>>

\* the second pointermove: the dragged item goes back to the index it had
RoundTrip_moveBack ==
  /\ variant = "arrayMove" /\ events.views = 1
  /\ LET r == pointerMoveUpdater(todos, drag.id, FindIndex(drag.before, drag.id)) IN
       /\ todos' = r.next
       /\ drag' = [drag EXCEPT !.moved = @ \/ r.moved]
  /\ events' = [events EXCEPT !.views = 2]
  /\ UNCHANGED <<schemaVars, restVars, store, nextId, isLoading, busyId, error, isAdding,
                 editVars, viewVars, selVars, positioningAvailable, latestTodosRef,
                 ops, frozen, failures, fin>>

NextRoundTrip ==
  \/ \E toIndex \in 0 .. MaxTodos - 1 : RoundTrip_moveTo(toIndex)
  \/ RoundTrip_moveBack

SpecRoundTrip == InitRoundTrip /\ [][NextRoundTrip]_vars

RoundTripDone == variant = "arrayMove" /\ events.views = 2

MaxGuideDepth == 8

\* the while loop of depthFor (part_004:1757-1764), from the item current with
\* the ids in seen and depth links counted so far; fuel bounds the loop, and a
\* loop that runs out of it has not ended (hung)
RECURSIVE depthWalk(_, _, _, _, _)
depthWalk(items, current, seen, depth, fuel) ==
  IF current.parent = NULL \/ current.parent \notin IdsOf(items)
  THEN [depth |-> depth, links |-> depth, hung |-> FALSE]
  ELSE IF current.parent \in seen
  THEN [depth |-> depth, links |-> depth, hung |-> FALSE]
  ELSE IF fuel = 0
  THEN [depth |-> depth, links |-> depth, hung |-> TRUE]
  ELSE depthWalk(items, Item(items, current.parent), seen \cup {current.parent},
                 depth + 1, fuel - 1)

\* depthFor (part_004:1749): the memo only holds results of depthFor itself
depthFor(items, todoId) ==
  LET walk == depthWalk(items, Item(items, todoId), {}, 0, Len(items) + 1)
      depth == IF walk.depth = 0 /\ Item(items, todoId).parent # NULL
               THEN 1 ELSE walk.depth
      boundedDepth == IF depth < MaxGuideDepth THEN depth ELSE MaxGuideDepth
  IN [depth |-> boundedDepth, links |-> walk.links, hung |-> walk.hung]

\* depthByTodoId (part_004:1745)
depthByTodoId(items) ==
  [id \in IdsOf(items) |-> depthFor(items, id).depth]

\* the lists of exactly the ids in chosen, in every order, at positions 0..n-1,
\* with any parent_id: null, an item of the list (itself included) or an id that
\* is not in the list
ParentedListsOf(chosen) ==
  LET n == Cardinality(chosen)
      orders == {order \in [1 .. n -> chosen] :
                   \A i, j \in 1 .. n : i # j => order[i] # order[j]}
  IN {[i \in 1 .. n |->
         [id |-> order[i], done |-> FALSE, pos |-> i - 1, parent |-> parentOf[order[i]]]] :
        order \in orders, parentOf \in [chosen -> Ids \cup {NULL}]}

InitDepth ==
  /\ variant = "depth" /\ Parked
  /\ \E chosen \in SUBSET Ids :
       /\ chosen # {}
       /\ todos \in ParentedListsOf(chosen)
  /\ drag = NoDrag
  /\ events = [acts |-> 0, views |-> 0]

\* setTodos with the parent_id of one item replaced (the map of the nest and
\* unnest handlers, part_005:428, 503); the memos are recomputed
Depth_setParent(id, parentId) ==
  /\ variant = "depth"
  /\ id \in IdsOf(todos)
  /\ Item(todos, id).parent # parentId
  /\ todos' = SetParent(todos, id, parentId)
  /\ UNCHANGED <<variant, colPosition, colParent, store, nextId,
                 supportsPositionColumn, supportsParentColumn, isLoading, busyId,
                 error, isAdding, editingId, filter, showCompleted,
                 collapsedTodoIds, selectedTodoIds, selectionAnchorId,
                 activeTodoId, positioningAvailable, latestTodosRef, drag, ops,
                 frozen, failures, fin, events>>

NextDepth == \E id \in Ids, parentId \in Ids \cup {NULL} : Depth_setParent(id, parentId)

SpecDepth == InitDepth /\ [][NextDepth]_vars

\* the parent links of items form a cycle through every item of the list
OneCycle(items) ==
  /\ Len(items) = MaxTodos
  /\ \A i \in 1 .. Len(items) :
       AncestorsOf(items, items[i].id, Len(items)) = IdsOf(items)

\* C13: for every assignment of parent ids over the list (cycles, self-parents
\* and parents that are not listed included) both depth computations end, the
\* computation for one item follows at most n parent links, n the number of
\* items, and an item whose parent_id is null gets depth 0.
C13_DepthTerminates ==
  variant = "depth" =>
    LET run == buildDepthRun(todos)
        n == Len(todos)
    IN /\ ~run.hung
       /\ \A i \in 1 .. n :
            LET id == todos[i].id
                card == depthFor(todos, id)
            IN /\ run.links[id] <= n
               /\ ~card.hung
               /\ card.links <= n
               /\ todos[i].parent = NULL =>
                    run.cache[id] = 0 /\ card.depth = 0

C13_Witness ==
  /\ variant = "depth"
  /\ OneCycle(todos)
  /\ todos[1].parent # todos[1].id
  /\ buildDepthRun(todos).links[todos[1].id] = Len(todos)
  /\ depthFor(todos, todos[1].id).links = Len(todos)
  /\ ~buildDepthRun(todos).hung


\* where the parent chain of id ends: at a null parent_id ("root"), at a parent
\* that is not listed ("missing"), or never, because it runs into a cycle
RECURSIVE ChainEnd(_, _, _)
ChainEnd(items, id, fuel) ==
  LET parent == Item(items, id).parent
  IN IF parent = NULL THEN "root"
     ELSE IF parent \notin IdsOf(items) THEN "missing"
     ELSE IF fuel = 0 THEN "cycle"
     ELSE ChainEnd(items, parent, fuel - 1)

\* the same items in another order
Reordered(items) ==
  {other \in [1 .. Len(items) -> Range(items)] : Range(other) = Range(items)}

\* C14: an item whose ancestor chain runs into a cycle, or ends at a parent that
\* is not in the list, has depth 0; only an item whose own parent_id is set and
\* not listed may be shown at depth 1 instead.  The depth of an item is the same
\* in whatever order the depths of the items are computed.
C14_BrokenChainHasDepthZero ==
  variant = "depth" =>
    \A i \in 1 .. Len(todos) :
      LET id == todos[i].id
          treeDepth == buildDepthMap(todos)[id]
          cardDepth == depthByTodoId(todos)[id]
          ownParentUnresolved ==
            todos[i].parent # NULL /\ todos[i].parent \notin IdsOf(todos)
      IN /\ ChainEnd(todos, id, Len(todos)) \in {"cycle", "missing"} =>
              /\ treeDepth = 0 \/ (treeDepth = 1 /\ ownParentUnresolved)
              /\ cardDepth = 0 \/ (cardDepth = 1 /\ ownParentUnresolved)
         /\ \A other \in Reordered(todos) :
              /\ buildDepthMap(other)[id] = treeDepth
              /\ depthByTodoId(other)[id] = cardDepth


\* the step is an unnest gesture that changes the parent of id (its record is
\* new in ops and holds the ids it changes; it always has a call to wait for)
UnnestBegins(id) ==
  \E g \in ops' \ ops :
    /\ g.kind = "unnest" /\ id \in g.ids
    /\ \A h \in ops : h.seq # g.seq

\* C15: when a nest gesture has changed the parent of a task and its store calls
\* have succeeded, an unnest gesture on that task in the very next step, with no
\* other gesture in flight, gives the task the parent_id it had before the nest
\* (the list the unnest shows is the one it keeps when its calls succeed).
C15_UnnestUndoesNest ==
  [][\A id \in Ids :
       (/\ variant \in {"card", "tree"}
        /\ fin.kind = "nest" /\ ~fin.failed /\ ops = {}
        /\ id \in fin.ids /\ id \in IdsOf(fin.before) /\ id \in IdsOf(todos)
        /\ Item(todos, id).parent # Item(fin.before, id).parent
        /\ UnnestBegins(id))
       => /\ id \in IdsOf(todos')
          /\ Item(todos', id).parent = Item(fin.before, id).parent]_vars


\* the number of listed ancestors of id
Level(items, id) == Cardinality(AncestorsOf(items, id, Len(items)))

\* the list the revision shows
ShownItems == IF variant = "tree" THEN visibleTodos ELSE filteredTodos

\* the step is a nest gesture that changes the parent of id
NestBegins(id) ==
  \E g \in ops' \ ops :
    /\ g.kind = "nest" /\ id \in g.ids
    /\ \A h \in ops : h.seq # g.seq

\* C16: a nest gesture on one task, no other task selected, puts the task under the
\* nearest shown task before it that is at the task's own depth: its depth grows
\* by exactly one, the order of the list stays, and the positions are 0..n-1.
C16_NestGoesOneLevelDown ==
  [][\A id \in Ids :
       (/\ variant \in {"card", "tree"}
        /\ Len(selectedTodoIds) <= 1
        /\ NestBegins(id))
       => LET level == Level(todos, id)
              shown == IdSeq(ShownItems)
              at == IndexOf(shown, id)
              before == {k \in 1 .. at : Level(todos, shown[k]) = level}
          IN /\ before # {}
             /\ \A k \in before :
                  (\A j \in before : j <= k) => Item(todos', id).parent = shown[k]
             /\ Level(todos', id) = level + 1
             /\ IdSeq(todos') = IdSeq(todos)
             /\ PositionsDense(todos')]_vars


\* C17: an unnest gesture on one task, no other task selected, gives the task the
\* parent_id of its parent, whatever is shown above it: its depth falls by exactly
\* one.  On a task that is top-level already the gesture changes nothing and
\* calls nothing.
C17_UnnestGoesOneLevelUp ==
  [][/\ \A id \in Ids :
          (/\ variant \in {"card", "tree"}
           /\ Len(selectedTodoIds) <= 1
           /\ NoParentCycle(todos)
           /\ UnnestBegins(id)
           /\ Item(todos, id).parent \in IdsOf(todos))
          => /\ Item(todos', id).parent = Item(todos, Item(todos, id).parent).parent
             /\ Level(todos', id) = Level(todos, id) - 1
     /\ \A activeId \in Ids :
          (/\ Card_unnestFocusedSelectionOneLevel(activeId)
           /\ Len(selectedTodoIds) <= 1
           /\ Item(todos, activeId).parent = NULL)
          => UNCHANGED <<todos, store, ops>>
     /\ (/\ Tree_handleUnnestActiveTodo
         /\ Len(selectedTodoIds) <= 1
         /\ activeTodoId \in IdsOf(todos)
         /\ Item(todos, activeTodoId).parent = NULL)
          => UNCHANGED <<todos, store, ops>>]_vars

\* the ids on the parent links from id upwards, listed or not
RECURSIVE ChainIds(_, _, _)
ChainIds(items, id, fuel) ==
  LET parent == Item(items, id).parent
  IN IF parent = NULL THEN {}
     ELSE IF parent \notin IdsOf(items) \/ fuel = 0 THEN {parent}
     ELSE {parent} \cup ChainIds(items, parent, fuel - 1)

\* C18: the shown sequence holds, in list order, exactly the tasks that are not
\* completed while completed tasks are hidden and that have no collapsed task
\* on their parent chain, at any level, whether or not the ancestors between
\* are shown themselves.
C18_VisibleIsUncollapsedUnhidden ==
  (variant = "tree" /\ ~isLoading /\ ~frozen) =>
    visibleTodos =
      SelectSeq(todos,
                LAMBDA t : /\ showCompleted \/ ~t.done
                           /\ ChainIds(todos, t.id, Len(todos)) \cap collapsedTodoIds = {})


\* the gestures that begin in the step: their records are new in ops
Begun == {g \in ops' \ ops : \A h \in ops : h.seq # g.seq}

\* C19: while tasks are selected, a bulk delete removes exactly the selected
\* tasks, a nest or unnest changes selected tasks only, and a keyboard move takes
\* every selected task to another place: no gesture acts on the active task alone.
C19_GesturesActOnSelection ==
  [][(variant \in {"card", "tree"} /\ Len(selectedTodoIds) > 0) =>
       \A g \in Begun :
         /\ g.kind = "bulkDelete" =>
              IdsOf(todos) \ IdsOf(todos') = Range(selectedTodoIds)
         /\ g.kind \in {"nest", "unnest"} => g.ids \subseteq Range(selectedTodoIds)
         /\ (g.kind = "move" /\ variant = "card") => g.ids = Range(selectedTodoIds)
         /\ (g.kind = "move" /\ variant = "tree") =>
              \A id \in Range(selectedTodoIds) :
                FindIndex(todos', id) # FindIndex(todos, id)]_vars


\* the items of items that are not in removed and have an ancestor in it
OrphansOf(items, removed) ==
  {id \in IdsOf(items) \ removed : AncestorsOf(items, id, Len(items)) \cap removed # {}}

\* C20: a bulk delete of the tasks X leaves exactly the other tasks of the list,
\* in their relative order, at positions 0..k-1; a descendant of a deleted task
\* that is not in X stays in the list, and the delete requests are those for the
\* tasks of X.  The step that ends the gesture with success leaves the list as
\* it is.
C20_BulkDeleteKeepsRest ==
  [][/\ \A g \in Begun :
          g.kind = "bulkDelete" =>
            /\ LeavesOthers(todos, g.ids, todos')
            /\ OrphansOf(todos, g.ids) \subseteq IdsOf(todos')
            /\ {c.id : c \in {d \in g.pend : d.k = "del"}} = g.ids
     /\ \A g \in ops :
          (g.kind = "bulkDelete" /\ fin' = Finished(g, FALSE)) => todos' = todos]_vars

\* two of three tasks, one of them the parent of the third, have just been
\* deleted with success: the third is still listed
C20_Witness ==
  /\ fin.kind = "bulkDelete" /\ ~fin.failed
  /\ Len(fin.before) = 3 /\ Cardinality(fin.ids) = 2
  /\ OrphansOf(fin.before, fin.ids) # {}
  /\ Len(todos) = 1 /\ todos[1].pos = 0 /\ todos[1].parent \in fin.ids


\* C21: committing an edit with an empty title.  Where the empty title deletes
\* (the card revision), a commit that succeeded has deleted the row, taken the
\* item out of the list, renormalized the positions and closed the edit, with no
\* validation message.  In the other revisions the commit calls nothing, leaves
\* the list, sets the validation message and keeps the edit open.
C21_EmptyTitleCommit ==
  [][/\ \A g \in ops :
          (g.kind = "editDelete" /\ fin' = Finished(g, FALSE)) =>
            /\ ~store'[g.id].present
            /\ g.id \notin IdsOf(todos')
            /\ PositionsDense(todos')
            /\ editingId' = NULL
            /\ error' # EmptyTitleMsg
     /\ ((App_saveEdit("") \/ Tree_saveEdit("")) /\ busyId = NULL) =>
          /\ UNCHANGED <<todos, store, ops, editingId>>
          /\ error' = EmptyTitleMsg]_vars


\* C22: an add with an empty title, and an edit commit with an empty title where
\* the empty title does not delete, call nothing, leave the list as it is and
\* set a validation message.
C22_EmptyTitleRejectedWithMessage ==
  [][(\/ App_handleAdd("")
      \/ Card_handleCreateFromAddCard("")
      \/ Tree_submitNewTask("")
      \/ (App_saveEdit("") /\ busyId = NULL)
      \/ (Tree_saveEdit("") /\ busyId = NULL))
       => /\ UNCHANGED <<todos, store, ops>>
          /\ error' # NoError]_vars

\* ============================================================ optional columns
\* the ids of the rows in the order of created_at.asc
CreationOrder == SortedRows([id \in Ids |-> [store[id] EXCEPT !.pos = 0]],
                            {id \in Ids : store[id].present})

PositionFallback ==
  /\ error' = NoError
  /\ IdSeq(todos') = CreationOrder
  /\ \A i \in 1 .. Len(todos') : todos'[i].pos = i - 1
  /\ ~isPositioningEnabled'

C24_MissingColumnsNeverFail ==
  [][loadTodos =>
       /\ error' = NoError
       /\ IdsOf(todos') = {id \in Ids : store[id].present}
       /\ ~colParent => \A i \in 1 .. Len(todos') : todos'[i].parent = NULL
       /\ ~colPosition => /\ IdSeq(todos') = CreationOrder
                          /\ \A i \in 1 .. Len(todos') : todos'[i].pos = i - 1]_vars

\* C25: a capability that a load has marked unsupported is never marked supported
\* again, isPositioningEnabled() stays false once it is false, and no request
\* sent afterwards names the column: no position update, no parent_id update.
C25_DemotedColumnsStayUnnamed ==
  [][/\ supportsPositionColumn = "false" => supportsPositionColumn' = "false"
     /\ supportsParentColumn = "false" => supportsParentColumn' = "false"
     /\ ~isPositioningEnabled => ~isPositioningEnabled'
     /\ supportsPositionColumn' = "false" =>
          \A g \in ops' : \A c \in g.pend : c.k # "pos"
     /\ supportsParentColumn' = "false" =>
          \A g \in ops' : \A c \in g.pend : c.k # "par"]_vars

\* C26: an add sends one create request whose position is the number of listed
\* tasks at that moment, left out of the body when position is unsupported; when
\* the request succeeds the new task is appended with parentId null and the
\* positions are 0..n, and when it fails the list is left as it is.
C26_AddAppendsAtTheEnd ==
  [][/\ \A g \in Begun : g.kind = "add" =>
          \E c \in g.pend :
            /\ g.pend = {c} /\ c.k = "create" /\ c.id = g.id
            /\ c.v = Len(todos)
            /\ ("position" \in c.body) = isPositioningEnabled
     /\ \A g \in ops : g.kind = "add" =>
          /\ fin' = Finished(g, FALSE) =>
               /\ IdSeq(todos') = Append(IdSeq(todos), g.id)
               /\ todos'[Len(todos')].parent = NULL
               /\ \A i \in 1 .. Len(todos') : todos'[i].pos = i - 1
               /\ store'[g.id].present
          /\ fin' = Finished(g, TRUE) => todos' = todos /\ store' = store]_vars

C26_Witness ==
  /\ fin.kind = "add" /\ ~fin.failed
  /\ Len(todos) >= 2 /\ todos[Len(todos)].id = nextId - 1

\* the handlers of part_005 that await updateTodoPositions
OrderingKinds == {"move", "bulkDelete"}

\* an item that was listed when gesture g began and whose row the table holds
\* has its index in the list as its stored position
StoredAsListed(g, items, st) ==
  \A i \in 1 .. Len(items) :
    (items[i].id \in IdsOf(g.snap) /\ st[items[i].id].present) =>
      st[items[i].id].pos = i - 1

ReorderGesture ==
  \/ \E id \in Ids : App_startDrag(id) \/ App_handlePointerMove(id)
  \/ App_handlePointerUp
  \/ \E id \in Ids : Card_startDrag(id) \/ Card_handlePointerMove(id)
  \/ Card_handlePointerUp
  \/ \E id \in Ids, offset \in Offsets :
       \/ Card_moveShiftSelectionByOffset(id, offset)
       \/ Card_moveFocusedSelectionByOffset(id, offset)
  \/ \E direction \in Directions : Tree_handleMoveActiveTodo(direction)

\* C28: once the load has found that the table lacks the position column, a
\* reorder gesture leaves the order of the list as it is, sends nothing to the
\* table and shows no error message.
C28_NoReorderWithoutPositions ==
  [][(~isLoading /\ ~isPositioningEnabled /\ ReorderGesture) =>
       /\ IdSeq(todos') = IdSeq(todos)
       /\ ops' = ops /\ store' = store
       /\ error' \in {error, NoError}]_vars

NestKinds == {"nest", "unnest"}

\* C29: on a table without the parent_id column a nest or unnest gesture gives
\* no listed item a parent, sends no request and shows no error message.
C29_NestingSilentlyDisabled ==
  [][(~isLoading /\ ~colParent) =>
       /\ \A i \in 1 .. Len(todos') : todos'[i].parent = NULL
       /\ \A g \in ops' : g.kind \notin NestKinds /\ \A c \in g.pend : c.k # "par"
       /\ fin'.kind \in NestKinds => error' = NoError]_vars

\* where the pointer gesture of the cards is
Phase == IF drag.on THEN "dragging" ELSE IF drag.armed THEN "armed" ELSE "idle"

PhaseSteps ==
  {<<"idle", "armed">>, <<"armed", "dragging">>, <<"armed", "idle">>,
   <<"dragging", "idle">>}

\* some item listed before and after the step has another parentId
ParentChanges ==
  \E i \in 1 .. Len(todos), j \in 1 .. Len(todos') :
    todos[i].id = todos'[j].id /\ todos[i].parent # todos'[j].parent

\* the displacement that asks for a nest or an unnest
DisplacedFor(kind, dx) == (kind = "nest" /\ dx = 1) \/ (kind = "unnest" /\ dx = -1)

VisibleSequence == IF variant = "tree" THEN visibleTodos ELSE filteredTodos

\* the places of the selected ids in the visible sequence
SelectedPlaces ==
  {i \in 1 .. Len(VisibleSequence) : VisibleSequence[i].id \in Range(selectedTodoIds)}

\* C31: the selection is empty, one id, or ids at consecutive places of the
\* visible sequence.
C31_SelectionIsContiguous ==
  (~isLoading /\ ~frozen /\ Rendered) =>
    \/ Len(selectedTodoIds) <= 1
    \/ /\ Cardinality(SelectedPlaces) = Cardinality(Range(selectedTodoIds))
       /\ \A i, j \in SelectedPlaces :
            \A k \in i .. j : k \in SelectedPlaces

\* C32: the step in which a gesture sends its first call clears the error
\* message, and so the message is null when a gesture finishes without a
\* failure, whatever else failed while it was in flight.
C32_ErrorClearedOnAttemptAndSuccess ==
  [][/\ Begun # {} => error' = NoError
     /\ \A g \in ops : fin' = Finished(g, FALSE) => error' = NoError]_vars

\* C33: the reposition sent when a drag is released or dropped names the ids in
\* the order of the list in memory at that moment.
C33_ReleaseSendsCurrentOrder ==
  [][\A g \in Begun : g.kind = "order" =>
       /\ Cardinality(g.pend) = Len(todos)
       /\ \A c \in g.pend :
            c.k = "pos" /\ c.v < Len(todos) /\ todos[c.v + 1].id = c.id]_vars


\* C34: in the step in which a gesture that repositions tasks reports its outcome,
\* none of its position updates is still in flight.
C34_OutcomeAfterAllUpdates ==
  [][\A g \in ops :
       (/\ g.live
        /\ \E c \in g.pend : c.k = "pos"
        /\ fin' \in {Finished(g, TRUE), Finished(g, FALSE)})
       => ~\E h \in ops' : h.seq = g.seq]_vars


\* ------------------------------------------------- the three reorder operations
\* The operations are applied to lists with any parent links; fin keeps the input
\* of the last application and the ids of the block or subtree it moved.
MaxReorders == 1

InitReorder ==
  /\ variant = "reorder" /\ Parked
  /\ \E chosen \in SUBSET Ids :
       /\ chosen # {}
       /\ todos \in ParentedListsOf(chosen)
  /\ drag = NoDrag
  /\ events = [acts |-> 0, views |-> 0]

ApplyReorder(kind, next, movedIds) ==
  /\ variant = "reorder" /\ events.acts < MaxReorders
  /\ events' = [events EXCEPT !.acts = @ + 1]
  /\ fin' = [kind |-> kind, failed |-> FALSE, before |-> todos, ids |-> movedIds,
             busy |-> FALSE]
  /\ todos' = next
  /\ UNCHANGED <<variant, colPosition, colParent, store, nextId,
                 supportsPositionColumn, supportsParentColumn, isLoading, busyId,
                 error, isAdding, editingId, filter, showCompleted,
                 collapsedTodoIds, selectedTodoIds, selectionAnchorId,
                 activeTodoId, positioningAvailable, latestTodosRef, drag, ops,
                 frozen, failures>>

\* the ids whose chain of listed parents passes through the ids of found
RECURSIVE SubtreeIds(_, _, _)
SubtreeIds(items, found, fuel) ==
  IF fuel = 0 THEN found
  ELSE SubtreeIds(items,
                  found \cup {items[i].id : i \in {j \in 1 .. Len(items) :
                                                     ParentKey(items, items[j]) \in found}},
                  fuel - 1)

\* arrayMove(previous, fromIndex, toIndex) as the drag handlers call it
\* (todo-app.tsx:284, part_004:1577): both indexes come from findIndex
Reorder_arrayMove(activeId, overId) ==
  /\ activeId \in IdsOf(todos) /\ overId \in IdsOf(todos)
  /\ ApplyReorder("arrayMove",
               arrayMove(todos, FindIndex(todos, activeId), FindIndex(todos, overId)),
               {activeId})

\* compactAndMoveSelection(latestTodos, selected, activeId, offset) (part_004:1595)
Reorder_compactAndMoveSelection(selectedIds, activeId, offset) ==
  /\ Range(selectedIds) \subseteq IdsOf(todos)
  /\ activeId \in IdsOf(todos) \cup {NULL}
  /\ ApplyReorder("compactAndMoveSelection",
               compactAndMoveSelection(todos, selectedIds, activeId, offset).next,
               IdsOf(BlockOf(todos, selectedIds, activeId)))

\* reorderBySiblingMove(previous, activeTodoId, direction) (part_005:85); where it
\* returns null the caller keeps the list
Reorder_reorderBySiblingMove(activeId, direction) ==
  /\ activeId \in IdsOf(todos)
  /\ ApplyReorder("reorderBySiblingMove",
               reorderBySiblingMove(todos, activeId, direction).next,
               SubtreeIds(todos, {activeId}, Len(todos)))

IdLists ==
  {s \in UNION {[1 .. n -> Ids] : n \in 0 .. MaxTodos} :
     \A i, j \in 1 .. Len(s) : i # j => s[i] # s[j]}

\* normalizeMovedParentsAfterReorder(moved, movedIds) (part_004:1663), as
\* moveFocusedSelectionByOffset and the drag release call it after a reorder; a
\* call whose while loop never ends leaves the handler frozen
Reorder_normalizeMovedParentsAfterReorder(movedIds) ==
  LET r == normalizeMovedParentsAfterReorder(todos, movedIds)
  IN IF r.hung
     THEN /\ variant = "reorder" /\ events.acts < MaxReorders
          /\ events' = [events EXCEPT !.acts = @ + 1]
          /\ frozen' = TRUE
          /\ UNCHANGED <<variant, colPosition, colParent, store, nextId,
                         supportsPositionColumn, supportsParentColumn, isLoading,
                         busyId, error, isAdding, editingId, filter, showCompleted,
                         collapsedTodoIds, selectedTodoIds, selectionAnchorId,
                         activeTodoId, positioningAvailable, latestTodosRef, drag,
                         ops, failures, todos, fin>>
     ELSE ApplyReorder("normalizeMovedParentsAfterReorder", r.next, Range(movedIds))

NextReorder ==
  \/ \E activeId, overId \in Ids : Reorder_arrayMove(activeId, overId)
  \/ \E selectedIds \in IdLists, activeId \in Ids \cup {NULL}, offset \in {-1, 1} :
       Reorder_compactAndMoveSelection(selectedIds, activeId, offset)
  \/ \E activeId \in Ids, direction \in {-1, 1} :
       Reorder_reorderBySiblingMove(activeId, direction)
  \/ \E movedIds \in IdLists : Reorder_normalizeMovedParentsAfterReorder(movedIds)

SpecReorder == InitReorder /\ [][NextReorder]_vars

\* the list is the pre-order walk of the forest its parent links make
PreOrdered(items) ==
  IdSeq(VisitChildren(items,
                      SelectSeq(items, LAMBDA t : ParentKey(items, t) = NULL),
                      NULL, <<>>)) = IdSeq(items)

\* next holds the tasks of before, each once, and the tasks outside moved stand in
\* the order they had in before
KeepsTheOthers(before, next, moved) ==
  /\ Len(next) = Len(before)
  /\ IdsOf(next) = IdsOf(before)
  /\ IdSeq(Without(next, moved)) = IdSeq(Without(before, moved))

C36_VisibleSequenceIsComputed ==
  variant = "depth" => ~TreeHangs(todos, showCompleted, collapsedTodoIds)


\* C37: a call of normalizeMovedParentsAfterReorder returns, and in its result
\* every moved task has no parent or a parent listed before it, the other tasks
\* keep their parent, and parentUpdates names the moved tasks whose parent changed.
C37_MovedParentsNormalized ==
  [][\A movedIds \in IdLists :
       Reorder_normalizeMovedParentsAfterReorder(movedIds) =>
         LET r == normalizeMovedParentsAfterReorder(todos, movedIds)
             moved == Range(movedIds) \cap IdsOf(todos)
         IN /\ ~frozen'
            /\ IdSeq(todos') = IdSeq(todos)
            /\ \A id \in moved :
                 \/ Item(todos', id).parent = NULL
                 \/ /\ Item(todos', id).parent \in IdsOf(todos')
                    /\ FindIndex(todos', Item(todos', id).parent) < FindIndex(todos', id)
            /\ \A id \in IdsOf(todos) \ moved :
                 Item(todos', id).parent = Item(todos, id).parent
            /\ r.parentUpdates =
                 {id \in moved : Item(todos', id).parent # Item(todos, id).parent}]_vars


RollbackKinds == {"bulkDelete", "move", "nest", "unnest"}

\* C38: the step in which a failed bulk delete, move, nest or unnest restores its
\* snapshot keeps every task that a create has added to the list in memory
\* since that gesture began.
C38_RollbackKeepsCreatedTasks ==
  [][\A g \in ops :
       (g.kind \in RollbackKinds /\ fin' = Finished(g, TRUE))
       => \A id \in IdsOf(todos) \ IdsOf(g.before) : id \in IdsOf(todos')]_vars


\* C39: the step that ends a keyboard drag leaves no item picked up; ended with
\* Enter or Tab it sends one reposition of the whole list in memory exactly when
\* a move of the session changed the order, and ended with Escape it sends none.
C39_KeyboardDropSavesMovedOrder ==
  [][\A persist \in BOOLEAN, key \in {"Enter", "Tab", "Escape"} :
       List_deactivateKeyboardDrag(persist, key) =>
         /\ ~drag'.on /\ ~drag'.kbd
         /\ Cardinality(Begun) <= 1
         /\ \A g \in Begun :
              g.kind = "order" /\ g.pend = PositionCalls(IdSeq(todos))
         /\ IF key = "Escape" THEN Begun = {} ELSE (Begun # {} <=> drag.changed)]_vars


\* the ids of the tasks on screen
VisibleIds == IdsOf(VisibleSequence)

\* C40: once the effects that follow a commit have run, every selected id and the
\* anchor, when it is not null, are ids of tasks on screen, and in part_005
\* activeTodoId is null, the new-task marker or the id of a task on screen.
C40_SelectionIsVisible ==
  (variant \in {"card", "tree"} /\ ~frozen) =>
    /\ Range(selectedTodoIds) \subseteq VisibleIds
    /\ selectionAnchorId \in VisibleIds \cup {NULL}
    /\ variant = "tree" => activeTodoId \in VisibleIds \cup {NULL, NEW_TASK_ACTIVE_ID}


\* a delete in flight has taken its targets, which were the selection or the
\* active task, off the screen, and the effects have dropped them
C40_Witness ==
  /\ variant = "tree" /\ ~frozen
  /\ \E g \in ops :
       /\ g.kind = "bulkDelete" /\ g.live /\ g.ids # {}
       /\ g.ids \cap VisibleIds = {}
       /\ g.ids \subseteq IdsOf(g.before)
  /\ VisibleIds # {}
  /\ selectedTodoIds = <<>> /\ selectionAnchorId = NULL /\ activeTodoId = NULL

====
